---- MODULE Spec2Model ----
\* A model of the dynamicstruct Builder (src/dynamicstrcut.go): the field
\* registry, the anonymous-field sequence, the built instance, and the eight
\* public operations.  Every operation holds the Builder's mutex from entry to
\* return (b.m.Lock / defer b.m.Unlock), so each call is one atomic action.
\*
\* Go strings are sequences of one-character strings, so that joining tag
\* fragments, scanning a tag and upper-casing a first letter are computed the
\* way the code computes them.
EXTENDS Naturals, Integers, Sequences, FiniteSets, TLC

VARIABLES fields, anonymousFields, instance, handle, ret, m, threads, old

\* handle is the caller's side of Build: <<>> while the caller holds no
\* value from Build, else <<h>> with h the value Build returned.  The caller
\* drops it when it resets the builder.
\*
\* m is the Builder's mutex (b.m): Unlocked, or the goroutine that holds it.
\* threads gives each goroutine's place in the call it is making.
\*
\* old is a Builder of the earlier version of the package, without tags and
\* anonymous fields (src/unnamed/part_001): its fields, its instance and the
\* result of the last call made on it.

vars == <<fields, anonymousFields, instance, handle, ret, m, threads, old>>

\* The Builder and what its callers see of it.
bvars == <<fields, anonymousFields, instance, handle, ret>>

-----------------------------------------------------------------------------
\* Bounds of the model.

\* Largest number of entries the named-field registry is allowed to hold.
MaxNamed == 2

\* Largest length of the anonymous-field sequence.
MaxAnon == 2

-----------------------------------------------------------------------------
\* Errors (the package's sentinel values), the nil error and a panic.

ErrNil == "nil"
ErrFieldAlreadyExists == "ErrFieldAlreadyExists"
ErrAnonymousFieldAlreadyExists == "ErrAnonymousFieldAlreadyExists"
ErrInstanceAlreadyBuilt == "ErrInstanceAlreadyBuilt"
ErrInstanceNotBuilt == "ErrInstanceNotBuilt"
ErrValueMustBePointer == "ErrValueMustBePointer"
ErrValueCannotBeNil == "ErrValueCannotBeNil"
ErrFieldNotFound == "ErrFieldNotFound"
ErrAnonymousFieldNotFound == "ErrAnonymousFieldNotFound"
ErrIncompatibleTypes == "ErrIncompatibleTypes"
ErrInvalidTag == "ErrInvalidTag"
\* The call did not return: a run-time panic propagated to the caller
\* (the deferred Unlock has run).
Panic == "panic"

-----------------------------------------------------------------------------
\* Strings.

LowerCase == <<"a","b","c","d","e","f","g","h","i","j","k","l","m",
               "n","o","p","q","r","s","t","u","v","w","x","y","z">>
UpperCase == <<"A","B","C","D","E","F","G","H","I","J","K","L","M",
               "N","O","P","Q","R","S","T","U","V","W","X","Y","Z">>

IsLower(c) == \E i \in 1..Len(LowerCase) : LowerCase[i] = c

\* strings.ToUpper on a one-character string.
ToUpper(c) ==
    IF IsLower(c)
    THEN UpperCase[CHOOSE i \in 1..Len(LowerCase) : LowerCase[i] = c]
    ELSE c

EmptyString == <<>>

\* Faulty variant: the elements put together without the separator.
RECURSIVE Join_NoSeparator(_, _)
Join_NoSeparator(elems, sep) ==
    IF Len(elems) = 0 THEN EmptyString
    ELSE elems[1] \o Join_NoSeparator(Tail(elems), sep)

\* strings.Join(elems, sep)
RECURSIVE Join(_, _)
Join(elems, sep) ==
    IF Len(elems) = 0 THEN EmptyString
    ELSE IF Len(elems) = 1 THEN elems[1]
    ELSE elems[1] \o sep \o Join(Tail(elems), sep)

-----------------------------------------------------------------------------
\* reflect.Type descriptors.  id is the type's identity (two descriptors are the
\* same type exactly when they are the same record), name is Type.Name(),
\* kind is Type.Kind().String(), fields the fields of a struct type.

S_string == <<"s","t","r","i","n","g">>
S_struct == <<"s","t","r","u","c","t">>
S_slice == <<"s","l","i","c","e">>
S_PersonTest == <<"P","e","r","s","o","n","T","e","s","t">>
S_int == <<"i","n","t">>
S_Age == <<"A","g","e">>
S_Name == <<"N","a","m","e">>
S_age == <<"a","g","e">>
S_String == <<"S","t","r","i","n","g">>

\* reflect.TypeOf(nil): the nil Type.
NilType == [id |-> "nil", name |-> EmptyString, kind |-> EmptyString, fields |-> <<>>]

TString == [id |-> "string", name |-> S_string, kind |-> S_string, fields |-> <<>>]

\* Two unnamed types of the same kind.
TSliceInt == [id |-> "[]int", name |-> EmptyString, kind |-> S_slice, fields |-> <<>>]
TSliceString == [id |-> "[]string", name |-> EmptyString, kind |-> S_slice, fields |-> <<>>]

TInt == [id |-> "int", name |-> S_int, kind |-> S_int, fields |-> <<>>]

\* A declared struct type without methods:
\* type PersonTest struct { Name string; Age int }.
TPersonTest ==
    [id |-> "PersonTest", name |-> S_PersonTest, kind |-> S_struct,
     fields |-> << [Name |-> S_Name, Type |-> TString,
                    Tag |-> EmptyString, Anonymous |-> FALSE],
                   [Name |-> S_Age, Type |-> TInt,
                    Tag |-> EmptyString, Anonymous |-> FALSE] >>]

\* A value: its dynamic type and whether it is that type's zero value.
Zero(t) == [typ |-> t, zero |-> TRUE]
NonZero(t) == [typ |-> t, zero |-> FALSE]

\* The nil interface value.
NoValue == Zero(NilType)

\* reflect.TypeOf: the dynamic type of the value, whatever the value holds;
\* the nil Type for the nil interface value.
TypeOf(v) == v.typ

-----------------------------------------------------------------------------
\* Struct tags: structtag.Parse, called by AddField and AddAnonymousField.

\* The tag with its leading spaces skipped.
RECURSIVE SkipSpaces(_)
SkipSpaces(tag) ==
    IF Len(tag) > 0 /\ tag[1] = " " THEN SkipSpaces(Tail(tag)) ELSE tag

\* The number of leading characters that belong to a key: the scan stops at a
\* space, a colon or a quote.
RECURSIVE KeyLen(_)
KeyLen(tag) ==
    IF Len(tag) > 0 /\ tag[1] \notin {" ", ":", "\""}
    THEN 1 + KeyLen(Tail(tag))
    ELSE 0

\* The 0-based index at which the scan of a quoted value, started at i, stops:
\* the closing quote, or Len(tag) when there is none.
RECURSIVE QuoteEnd(_, _)
QuoteEnd(tag, i) ==
    IF i < Len(tag) /\ tag[i + 1] # "\""
    THEN QuoteEnd(tag, IF tag[i + 1] = "\\" THEN i + 2 ELSE i + 1)
    ELSE i

\* strconv.Unquote on a double-quoted string: a string without backslash is
\* accepted as it is.  The fragments of the model hold no escape sequence.
UnquoteOK(qvalue) == \A i \in 1..Len(qvalue) : qvalue[i] # "\\"

\* TRUE when structtag.Parse(tag) returns a nil error.
RECURSIVE ParseOK(_)
ParseOK(tag) ==
    LET t1 == SkipSpaces(tag)
        i == KeyLen(t1)
    IN  IF Len(t1) = 0 THEN TRUE
        ELSE IF i = 0 THEN FALSE
        ELSE IF i + 1 >= Len(t1) \/ t1[i + 1] # ":" THEN FALSE
        ELSE IF t1[i + 2] # "\"" THEN FALSE
        ELSE LET t2 == SubSeq(t1, i + 2, Len(t1))
                 j == QuoteEnd(t2, 1)
             IN  IF j >= Len(t2) THEN FALSE
                 ELSE IF ~UnquoteOK(SubSeq(t2, 1, j + 1)) THEN FALSE
                 ELSE ParseOK(SubSeq(t2, j + 2, Len(t2)))

\* The tag handling shared by AddField and AddAnonymousField: the tag to
\* record, whether the call goes on (ok), and whether the validator was
\* consulted (parsed).
BuildTag(tags) ==
    IF Len(tags) > 0
    THEN LET tagString == Join(tags, <<" ">>)
         IN  IF tagString # EmptyString
             THEN [ok |-> ParseOK(tagString), tag |-> tagString, parsed |-> TRUE]
             ELSE [ok |-> TRUE, tag |-> tagString, parsed |-> FALSE]
    ELSE [ok |-> TRUE, tag |-> EmptyString, parsed |-> FALSE]

-----------------------------------------------------------------------------
\* reflect.StructOf, FieldByName and the instance.

Digits == {"0","1","2","3","4","5","6","7","8","9"}
IsLetter(c) == IsLower(c) \/ (\E i \in 1..Len(UpperCase) : UpperCase[i] = c) \/ c = "_"

\* reflect's isValidFieldName.
IsValidFieldName(name) ==
    /\ Len(name) > 0
    /\ IsLetter(name[1])
    /\ \A i \in 1..Len(name) : IsLetter(name[i]) \/ name[i] \in Digits

\* TRUE when reflect.StructOf panics on the field list: a field without a
\* name or with an invalid name, without a type, with a name that is not
\* exported, or with the name of an earlier field.  (The model's types have
\* no methods, so the checks on embedded types with methods never fire.)
StructOfPanics(fs) ==
    \E i \in 1..Len(fs) :
        \/ fs[i].Name = EmptyString
        \/ ~IsValidFieldName(fs[i].Name)
        \/ fs[i].Type = NilType
        \/ IsLower(fs[i].Name[1]) \/ fs[i].Name[1] = "_"
        \/ \E j \in 1..(i - 1) : fs[j].Name = fs[i].Name /\ fs[i].Name # <<"_">>

\* The struct type reflect.StructOf returns for an accepted field list.
StructOf(fs) ==
    [id |-> "struct{...}", name |-> EmptyString, kind |-> S_struct, fields |-> fs]

\* Faulty variant: an instance whose fields are filled from the samples
\* instead of being left at their zero values.
NewElem_FromSamples(t) ==
    [typ |-> t, fld |-> [i \in 1..Len(t.fields) |-> NonZero(t.fields[i].Type)]]

\* reflect.New(t).Elem(): a zero-valued struct of type t, field by field.
NewElem(t) ==
    [typ |-> t, fld |-> [i \in 1..Len(t.fields) |-> Zero(t.fields[i].Type)]]

\* The struct value as a whole (Value.Interface() copies it).
Interface(inst) ==
    [typ |-> inst.typ, zero |-> \A i \in 1..Len(inst.fld) : inst.fld[i].zero]

\* Faulty variant: Build hands out b.instance.Addr().Interface(), a pointer
\* to the stored instance.
Handle_Addr(inst) == [shared |-> TRUE, val |-> inst]

\* What Build hands to the caller: b.instance.Interface() packs the struct
\* into an interface value, which holds a copy of it and no reference to the
\* storage b.instance points at.
Handle(inst) == [shared |-> FALSE, val |-> inst]

\* The fields promoted from embedded structs (one level): <<i, j>> is field j
\* of the struct embedded as field i.
Promoted(t, name) ==
    UNION { { <<i, j>> : j \in { k \in 1..Len(t.fields[i].Type.fields) :
                                    t.fields[i].Type.fields[k].Name = name } } :
            i \in { k \in 1..Len(t.fields) :
                        t.fields[k].Anonymous /\ t.fields[k].Type.kind = S_struct } }

\* Faulty variant: a lookup that passes over the embedded fields themselves
\* and finds only named fields and promoted ones.
FieldByName_NamedOnly(inst, name) ==
    LET t == inst.typ
        direct == {i \in 1..Len(t.fields) :
                      t.fields[i].Name = name /\ ~t.fields[i].Anonymous}
        prom == Promoted(t, name)
    IN  IF name # EmptyString /\ direct # {}
        THEN << inst.fld[CHOOSE i \in direct : \A k \in direct : i <= k] >>
        ELSE IF Cardinality(prom) = 1
        THEN LET p == CHOOSE q \in prom : TRUE
             IN  << [typ |-> t.fields[p[1]].Type.fields[p[2]].Type,
                     zero |-> inst.fld[p[1]].zero] >>
        ELSE <<>>

\* Value.FieldByName: <<v>> for a field found, <<>> for the invalid Value.
\* A field of the struct itself wins; otherwise a field promoted from an
\* embedded struct is found when exactly one embedded struct has it.
FieldByName(inst, name) ==
    LET t == inst.typ
        direct == {i \in 1..Len(t.fields) : t.fields[i].Name = name}
        prom == Promoted(t, name)
    IN  IF name # EmptyString /\ direct # {}
        THEN << inst.fld[CHOOSE i \in direct : \A k \in direct : i <= k] >>
        ELSE IF Cardinality(prom) = 1
        THEN LET p == CHOOSE q \in prom : TRUE
             IN  << [typ |-> t.fields[p[1]].Type.fields[p[2]].Type,
                     zero |-> inst.fld[p[1]].zero] >>
        ELSE <<>>

-----------------------------------------------------------------------------
\* The arguments the calls are made with.

Names == {S_Name, S_age, S_String}

\* Tag fragments: two well-formed key:"value" pairs, a fragment without a
\* colon, and the empty fragment.
FragGood == <<"k", ":", "\"", "v", "\"">>
FragOther == <<"j", ":", "\"", "w", "\"">>
FragBad == <<"b", "a", "d">>

TagLists == { <<>>, <<EmptyString>>, <<FragGood>>, <<FragGood, FragOther>>,
              <<FragGood, FragBad>> }

\* AddField(name, kind, tags): every name with two sample types, one name
\* with the nil sample, and one name and type with every tag list.
AddFieldInputs ==
    (Names \X {Zero(TString), NonZero(TSliceInt)} \X {<<>>})
        \cup ({S_Name} \X {NoValue} \X {<<>>})
        \cup ({S_Name} \X {NonZero(TString)} \X TagLists)

\* AddAnonymousField(fieldType, tags)
AnonTypes == {TString, TPersonTest, TSliceInt, TSliceString, NilType}
AddAnonymousFieldInputs ==
    (AnonTypes \X {<<>>})
        \cup ({TPersonTest} \X {<<EmptyString>>, <<FragGood>>, <<FragGood, FragBad>>})

\* The names GetField and GetFieldValue are called with: the declared names,
\* the names derived for anonymous fields, and the empty name.
LookupNames == Names \cup {S_PersonTest, <<"S","l","i","c","e">>, EmptyString}

\* The value argument of GetFieldValue and GetAnonymousFieldValue: something
\* that is no pointer, a nil pointer, or a pointer to a variable of type elem.
NonPointer(t) == [ptr |-> "none", elem |-> t]
NilPointer(t) == [ptr |-> "nil", elem |-> t]
PointerTo(t) == [ptr |-> "valid", elem |-> t]
ValueArgs == { NonPointer(TString), NilPointer(TString),
               PointerTo(TString), PointerTo(TSliceInt) }

\* What the caller's variable holds before the call: a non-zero value, so
\* that a copy into it shows.
Pointee(value) == IF value.ptr = "valid" THEN NonZero(value.elem) ELSE NoValue

-----------------------------------------------------------------------------
\* The state.
\*   fields           b.fields: name -> StructField
\*   anonymousFields  b.anonymousFields
\*   instance         b.instance: <<>> for nil, <<v>> for a pointer to v
\*   ret              the last call: its operation, the state it was made in
\*                    (pre), the error it returned, and the value it returned
\*                    or left in the caller's variable

\* The goroutines that call the Builder.
Threads == {"g1", "g2"}

\* The mutex with no holder.
Unlocked == "unlocked"

\* A call a goroutine makes: the method and its arguments (those the method
\* does not have are left at a default).
Call(op, name, sample, value) ==
    [op |-> op, name |-> name, sample |-> sample, value |-> value]

NoCall == Call("", EmptyString, NoValue, NonPointer(NilType))

\* A goroutine that is in no call of the Builder.
Idle == [pc |-> "idle", call |-> NoCall, snap |-> <<>>]

Open == "Open"
Built == "Built"

State == IF instance = <<>> THEN Open ELSE Built

NoFields == [n \in {} |-> NilType]

\* New()
Init ==
    /\ fields = NoFields
    /\ anonymousFields = <<>>
    /\ instance = <<>>
    /\ handle = <<>>
    /\ ret = [op |-> "New", pre |-> Open, err |-> ErrNil, val |-> NoValue]
    /\ m = Unlocked
    /\ threads = [t \in Threads |-> Idle]
    /\ old = [fields |-> NoFields, instance |-> <<>>,
              ret |-> [op |-> "New", pre |-> Open, err |-> ErrNil,
                       val |-> NoValue]]

\* The call returns err and val (for a call with an output pointer, val is
\* what the caller's variable holds afterwards) and changes nothing in the
\* Builder.
ReturnOnly(op, err, val) ==
    /\ ret' = [op |-> op, pre |-> State, err |-> err, val |-> val]
    /\ UNCHANGED <<fields, anonymousFields, instance, handle>>

Return(op, err, val) ==
    ret' = [op |-> op, pre |-> State, err |-> err, val |-> val]

-----------------------------------------------------------------------------
\* The operations.

\* Faulty variant: AddField without the check for an existing name, so that a
\* second declaration overwrites the first.
AddField_Overwrites(name, kind, tags) ==
    IF instance # <<>>
    THEN ReturnOnly("AddField", ErrInstanceAlreadyBuilt, NoValue)
    ELSE IF ~BuildTag(tags).ok
    THEN ReturnOnly("AddField", ErrInvalidTag, NoValue)
    ELSE /\ Cardinality(DOMAIN fields \cup {name}) <= MaxNamed
         /\ fields' = [n \in DOMAIN fields \cup {name} |->
                          IF n = name
                          THEN [Name |-> name, Type |-> TypeOf(kind),
                                Tag |-> BuildTag(tags).tag, Anonymous |-> FALSE]
                          ELSE fields[n]]
         /\ UNCHANGED <<anonymousFields, instance, handle>>
         /\ Return("AddField", ErrNil, NoValue)

\* Faulty variant: AddField that drops the validator's verdict and records
\* the field with the tag as given.
AddField_IgnoresParseError(name, kind, tags) ==
    IF instance # <<>>
    THEN ReturnOnly("AddField", ErrInstanceAlreadyBuilt, NoValue)
    ELSE IF name \in DOMAIN fields
    THEN ReturnOnly("AddField", ErrFieldAlreadyExists, NoValue)
    ELSE /\ Cardinality(DOMAIN fields) < MaxNamed
         /\ fields' = [n \in DOMAIN fields \cup {name} |->
                          IF n = name
                          THEN [Name |-> name, Type |-> TypeOf(kind),
                                Tag |-> BuildTag(tags).tag, Anonymous |-> FALSE]
                          ELSE fields[n]]
         /\ UNCHANGED <<anonymousFields, instance, handle>>
         /\ Return("AddField", ErrNil, NoValue)

\* Faulty variant: AddField that validates the tag before it looks the name
\* up, so that a duplicate name with a malformed tag is reported as InvalidTag.
AddField_TagCheckFirst(name, kind, tags) ==
    IF instance # <<>>
    THEN ReturnOnly("AddField", ErrInstanceAlreadyBuilt, NoValue)
    ELSE IF ~BuildTag(tags).ok
    THEN ReturnOnly("AddField", ErrInvalidTag, NoValue)
    ELSE IF name \in DOMAIN fields
    THEN ReturnOnly("AddField", ErrFieldAlreadyExists, NoValue)
    ELSE /\ Cardinality(DOMAIN fields) < MaxNamed
         /\ fields' = [n \in DOMAIN fields \cup {name} |->
                          IF n = name
                          THEN [Name |-> name, Type |-> TypeOf(kind),
                                Tag |-> BuildTag(tags).tag, Anonymous |-> FALSE]
                          ELSE fields[n]]
         /\ UNCHANGED <<anonymousFields, instance, handle>>
         /\ Return("AddField", ErrNil, NoValue)

AddField(name, kind, tags) ==
    IF instance # <<>>
    THEN ReturnOnly("AddField", ErrInstanceAlreadyBuilt, NoValue)
    ELSE IF name \in DOMAIN fields
    THEN ReturnOnly("AddField", ErrFieldAlreadyExists, NoValue)
    ELSE IF ~BuildTag(tags).ok
    THEN ReturnOnly("AddField", ErrInvalidTag, NoValue)
    ELSE /\ Cardinality(DOMAIN fields) < MaxNamed
         /\ fields' = [n \in DOMAIN fields \cup {name} |->
                          IF n = name
                          THEN [Name |-> name, Type |-> TypeOf(kind),
                                Tag |-> BuildTag(tags).tag, Anonymous |-> FALSE]
                          ELSE fields[n]]
         /\ UNCHANGED <<anonymousFields, instance, handle>>
         /\ Return("AddField", ErrNil, NoValue)

\* The name AddAnonymousField gives the field: the type's name, or its kind
\* when the type has no name, with a lower-case first letter upper-cased.
AnonymousFieldName(fieldType) ==
    LET fieldName == IF fieldType.name = EmptyString
                     THEN fieldType.kind
                     ELSE fieldType.name
    IN  IF Len(fieldName) > 0 /\ IsLower(fieldName[1])
        THEN <<ToUpper(fieldName[1])>> \o Tail(fieldName)
        ELSE fieldName

\* Faulty variant: AddAnonymousField without the search for a field of the
\* same type.
AddAnonymousField_NoDuplicateCheck(fieldType, tags) ==
    IF instance # <<>>
    THEN ReturnOnly("AddAnonymousField", ErrInstanceAlreadyBuilt, NoValue)
    ELSE IF ~BuildTag(tags).ok
    THEN ReturnOnly("AddAnonymousField", ErrInvalidTag, NoValue)
    ELSE IF fieldType = NilType
    THEN ReturnOnly("AddAnonymousField", Panic, NoValue)
    ELSE /\ Len(anonymousFields) < MaxAnon
         /\ anonymousFields' = Append(anonymousFields,
                [Name |-> AnonymousFieldName(fieldType), Type |-> fieldType,
                 Tag |-> BuildTag(tags).tag, Anonymous |-> TRUE])
         /\ UNCHANGED <<fields, instance, handle>>
         /\ Return("AddAnonymousField", ErrNil, NoValue)

\* Faulty variant: AddAnonymousField that appends the field before it
\* validates the tag, so that a refused call leaves the field behind.
AddAnonymousField_AppendsBeforeValidation(fieldType, tags) ==
    IF instance # <<>>
    THEN ReturnOnly("AddAnonymousField", ErrInstanceAlreadyBuilt, NoValue)
    ELSE IF \E i \in 1..Len(anonymousFields) : anonymousFields[i].Type = fieldType
    THEN ReturnOnly("AddAnonymousField", ErrAnonymousFieldAlreadyExists, NoValue)
    ELSE IF fieldType = NilType
    THEN ReturnOnly("AddAnonymousField", Panic, NoValue)
    ELSE /\ Len(anonymousFields) < MaxAnon
         /\ anonymousFields' = Append(anonymousFields,
                [Name |-> AnonymousFieldName(fieldType), Type |-> fieldType,
                 Tag |-> BuildTag(tags).tag, Anonymous |-> TRUE])
         /\ UNCHANGED <<fields, instance, handle>>
         /\ Return("AddAnonymousField",
                   IF BuildTag(tags).ok THEN ErrNil ELSE ErrInvalidTag, NoValue)

AddAnonymousField(fieldType, tags) ==
    IF instance # <<>>
    THEN ReturnOnly("AddAnonymousField", ErrInstanceAlreadyBuilt, NoValue)
    ELSE IF \E i \in 1..Len(anonymousFields) : anonymousFields[i].Type = fieldType
    THEN ReturnOnly("AddAnonymousField", ErrAnonymousFieldAlreadyExists, NoValue)
    ELSE IF ~BuildTag(tags).ok
    THEN ReturnOnly("AddAnonymousField", ErrInvalidTag, NoValue)
    ELSE IF fieldType = NilType
    THEN \* fieldTypeReflect.Name() on the nil Type
         ReturnOnly("AddAnonymousField", Panic, NoValue)
    ELSE /\ Len(anonymousFields) < MaxAnon
         /\ anonymousFields' = Append(anonymousFields,
                [Name |-> AnonymousFieldName(fieldType), Type |-> fieldType,
                 Tag |-> BuildTag(tags).tag, Anonymous |-> TRUE])
         /\ UNCHANGED <<fields, instance, handle>>
         /\ Return("AddAnonymousField", ErrNil, NoValue)

\* Faulty variant: RemoveField without the check of b.instance.
RemoveField_NoBuiltCheck(name) ==
    /\ fields' = [n \in DOMAIN fields \ {name} |-> fields[n]]
    /\ UNCHANGED <<anonymousFields, instance, handle>>
    /\ Return("RemoveField", ErrNil, NoValue)

\* Faulty variant: RemoveField that reports a name it does not find.
RemoveField_ErrorsWhenAbsent(name) ==
    IF instance # <<>>
    THEN ReturnOnly("RemoveField", ErrInstanceAlreadyBuilt, NoValue)
    ELSE IF name \notin DOMAIN fields
    THEN ReturnOnly("RemoveField", ErrFieldNotFound, NoValue)
    ELSE /\ fields' = [n \in DOMAIN fields \ {name} |-> fields[n]]
         /\ UNCHANGED <<anonymousFields, instance, handle>>
         /\ Return("RemoveField", ErrNil, NoValue)

\* Faulty variant: RemoveField that succeeds without deleting the entry.
RemoveField_KeepsEntry(name) ==
    IF instance # <<>>
    THEN ReturnOnly("RemoveField", ErrInstanceAlreadyBuilt, NoValue)
    ELSE ReturnOnly("RemoveField", ErrNil, NoValue)

\* Faulty variant: RemoveField that removes the declaration of the name
\* wherever it is, the anonymous fields of that derived name included.
RemoveField_AlsoAnonymous(name) ==
    IF instance # <<>>
    THEN ReturnOnly("RemoveField", ErrInstanceAlreadyBuilt, NoValue)
    ELSE /\ fields' = [n \in DOMAIN fields \ {name} |-> fields[n]]
         /\ anonymousFields' =
                SelectSeq(anonymousFields, LAMBDA f : f.Name # name)
         /\ UNCHANGED <<instance, handle>>
         /\ Return("RemoveField", ErrNil, NoValue)

RemoveField(name) ==
    IF instance # <<>>
    THEN ReturnOnly("RemoveField", ErrInstanceAlreadyBuilt, NoValue)
    ELSE /\ fields' = [n \in DOMAIN fields \ {name} |-> fields[n]]
         /\ UNCHANGED <<anonymousFields, instance, handle>>
         /\ Return("RemoveField", ErrNil, NoValue)

\* The orders in which a range over the map b.fields can visit its keys.
MapOrders(mp) ==
    { o \in [1..Cardinality(DOMAIN mp) -> DOMAIN mp] :
        \A i, j \in DOMAIN o : i # j => o[i] # o[j] }

\* Faulty variant: the field list without the anonymous fields.
buildStructFields_NamedOnly(order) ==
    [i \in 1..Len(order) |-> fields[order[i]]]

\* Faulty variant: the field list with the named fields ahead of the
\* anonymous fields.
buildStructFields_NamedFirst(order) ==
    [i \in 1..Len(order) |-> fields[order[i]]] \o anonymousFields

\* The anonymous fields first, then the named fields in the order the map
\* iteration visits them.
buildStructFields(order) ==
    anonymousFields \o [i \in 1..Len(order) |-> fields[order[i]]]

\* Faulty variant: Build without the check of b.instance, so that a second
\* call synthesizes again.
Build_Again ==
    \E order \in MapOrders(fields) :
        LET fs == buildStructFields(order)
            new == NewElem(StructOf(fs))
        IN  IF StructOfPanics(fs)
            THEN ReturnOnly("Build", Panic, NoValue)
            ELSE /\ instance' = <<new>>
                 /\ handle' = <<Handle(new)>>
                 /\ UNCHANGED <<fields, anonymousFields>>
                 /\ Return("Build", ErrNil, Interface(new))

Build ==
    IF instance # <<>>
    THEN ReturnOnly("Build", ErrInstanceAlreadyBuilt, NoValue)
    ELSE \E order \in MapOrders(fields) :
            LET fs == buildStructFields(order)
                new == NewElem(StructOf(fs))
            IN  IF StructOfPanics(fs)
                THEN ReturnOnly("Build", Panic, NoValue)
                ELSE /\ instance' = <<new>>
                     /\ handle' = <<Handle(new)>>
                     /\ UNCHANGED <<fields, anonymousFields>>
                     /\ Return("Build", ErrNil, Interface(new))

\* Faulty variant: Reset that does not clear b.instance.
Reset_KeepsInstance ==
    /\ anonymousFields' = <<>>
    /\ UNCHANGED <<fields, instance, handle>>
    /\ Return("Reset", ErrNil, NoValue)

\* Faulty variant: Reset that also empties the b.fields map.
Reset_ClearsFields ==
    /\ instance' = <<>>
    /\ anonymousFields' = <<>>
    /\ handle' = <<>>
    /\ fields' = NoFields
    /\ Return("Reset", ErrNil, NoValue)

\* Faulty variant: Reset that does not clear b.anonymousFields.
Reset_KeepsAnonymous ==
    /\ instance' = <<>>
    /\ handle' = <<>>
    /\ UNCHANGED <<fields, anonymousFields>>
    /\ Return("Reset", ErrNil, NoValue)

Reset ==
    /\ instance' = <<>>
    /\ anonymousFields' = <<>>
    /\ handle' = <<>>
    /\ UNCHANGED fields
    /\ Return("Reset", ErrNil, NoValue)

\* Faulty variant: GetFieldValue that looks the name up in b.fields instead
\* of the instance, and so finds named fields only.
GetFieldValue_RegistryLookup(name, value) ==
    IF instance = <<>>
    THEN ReturnOnly("GetFieldValue", ErrInstanceNotBuilt, Pointee(value))
    ELSE IF value.ptr = "none"
    THEN ReturnOnly("GetFieldValue", ErrValueMustBePointer, Pointee(value))
    ELSE IF value.ptr = "nil"
    THEN ReturnOnly("GetFieldValue", ErrValueCannotBeNil, Pointee(value))
    ELSE IF name \notin DOMAIN fields
    THEN ReturnOnly("GetFieldValue", ErrFieldNotFound, Pointee(value))
    ELSE IF fields[name].Type # value.elem
    THEN ReturnOnly("GetFieldValue", ErrIncompatibleTypes, Pointee(value))
    ELSE ReturnOnly("GetFieldValue", ErrNil,
                    FieldByName(instance[1], name)[1])

\* Faulty variant: GetFieldValue that looks the field up before it examines
\* the receiving argument, so that a missing field hides a bad argument.
GetFieldValue_LookupFirst(name, value) ==
    IF instance = <<>>
    THEN ReturnOnly("GetFieldValue", ErrInstanceNotBuilt, Pointee(value))
    ELSE LET field == FieldByName(instance[1], name)
         IN  IF field = <<>>
             THEN ReturnOnly("GetFieldValue", ErrFieldNotFound, Pointee(value))
             ELSE IF value.ptr = "none"
             THEN ReturnOnly("GetFieldValue", ErrValueMustBePointer, Pointee(value))
             ELSE IF value.ptr = "nil"
             THEN ReturnOnly("GetFieldValue", ErrValueCannotBeNil, Pointee(value))
             ELSE IF field[1].typ # value.elem
             THEN ReturnOnly("GetFieldValue", ErrIncompatibleTypes, Pointee(value))
             ELSE ReturnOnly("GetFieldValue", ErrNil, field[1])

\* Faulty variant: GetFieldValue with the assignment the wrong way round,
\* field.Set(v.Elem()) for v.Elem().Set(field): the caller's value lands in
\* the field of the instance.
GetFieldValue_SetsField(name, value) ==
    IF instance = <<>>
    THEN ReturnOnly("GetFieldValue", ErrInstanceNotBuilt, Pointee(value))
    ELSE IF value.ptr = "none"
    THEN ReturnOnly("GetFieldValue", ErrValueMustBePointer, Pointee(value))
    ELSE IF value.ptr = "nil"
    THEN ReturnOnly("GetFieldValue", ErrValueCannotBeNil, Pointee(value))
    ELSE LET field == FieldByName(instance[1], name)
             t == instance[1].typ
             direct == {i \in 1..Len(t.fields) : t.fields[i].Name = name}
         IN  IF field = <<>>
             THEN ReturnOnly("GetFieldValue", ErrFieldNotFound, Pointee(value))
             ELSE IF field[1].typ # value.elem
             THEN ReturnOnly("GetFieldValue", ErrIncompatibleTypes, Pointee(value))
             ELSE /\ instance' =
                      << [instance[1] EXCEPT !.fld =
                            [i \in 1..Len(t.fields) |->
                                IF i \in direct THEN Pointee(value)
                                ELSE instance[1].fld[i]]] >>
                  /\ UNCHANGED <<fields, anonymousFields, handle>>
                  /\ Return("GetFieldValue", ErrNil, Pointee(value))

\* Faulty variant: GetFieldValue without the comparison of the two types;
\* Value.Set panics when the field is not assignable to the pointee.
GetFieldValue_NoTypeCheck(name, value) ==
    IF instance = <<>>
    THEN ReturnOnly("GetFieldValue", ErrInstanceNotBuilt, Pointee(value))
    ELSE IF value.ptr = "none"
    THEN ReturnOnly("GetFieldValue", ErrValueMustBePointer, Pointee(value))
    ELSE IF value.ptr = "nil"
    THEN ReturnOnly("GetFieldValue", ErrValueCannotBeNil, Pointee(value))
    ELSE LET field == FieldByName(instance[1], name)
         IN  IF field = <<>>
             THEN ReturnOnly("GetFieldValue", ErrFieldNotFound, Pointee(value))
             ELSE IF field[1].typ # value.elem
             THEN ReturnOnly("GetFieldValue", Panic, Pointee(value))
             ELSE ReturnOnly("GetFieldValue", ErrNil, field[1])

GetFieldValue(name, value) ==
    IF instance = <<>>
    THEN ReturnOnly("GetFieldValue", ErrInstanceNotBuilt, Pointee(value))
    ELSE IF value.ptr = "none"
    THEN ReturnOnly("GetFieldValue", ErrValueMustBePointer, Pointee(value))
    ELSE IF value.ptr = "nil"
    THEN ReturnOnly("GetFieldValue", ErrValueCannotBeNil, Pointee(value))
    ELSE LET field == FieldByName(instance[1], name)
         IN  IF field = <<>>
             THEN ReturnOnly("GetFieldValue", ErrFieldNotFound, Pointee(value))
             ELSE IF field[1].typ # value.elem
             THEN ReturnOnly("GetFieldValue", ErrIncompatibleTypes, Pointee(value))
             ELSE ReturnOnly("GetFieldValue", ErrNil, field[1])

\* Faulty variant: the loop without the test of field.Anonymous, which takes
\* the first field of the type, named or anonymous.
AnonymousIndex_AnyField(t, fieldType) ==
    LET hits == { i \in 1..Len(t.fields) : t.fields[i].Type = fieldType }
    IN  IF hits = {} THEN 0 ELSE CHOOSE i \in hits : \A k \in hits : i <= k

\* Faulty variant: the loop without the comparison of the types, which stops
\* at the first anonymous field.
AnonymousIndex_First(t, fieldType) ==
    LET hits == { i \in 1..Len(t.fields) : t.fields[i].Anonymous }
    IN  IF hits = {} THEN 0 ELSE CHOOSE i \in hits : \A k \in hits : i <= k

\* The index of the first anonymous field of the struct type with the given
\* type, 0 when there is none.
AnonymousIndex(t, fieldType) ==
    LET hits == { i \in 1..Len(t.fields) :
                    t.fields[i].Anonymous /\ t.fields[i].Type = fieldType }
    IN  IF hits = {} THEN 0 ELSE CHOOSE i \in hits : \A k \in hits : i <= k

\* Faulty variant: GetAnonymousField without the check of b.instance; on an
\* Open builder b.instance.Type() dereferences nil.
GetAnonymousField_NoBuiltCheck(fieldType) ==
    IF instance = <<>>
    THEN ReturnOnly("GetAnonymousField", Panic, NoValue)
    ELSE LET i == AnonymousIndex(instance[1].typ, fieldType)
         IN  IF i # 0
             THEN ReturnOnly("GetAnonymousField", ErrNil, instance[1].fld[i])
             ELSE ReturnOnly("GetAnonymousField", ErrAnonymousFieldNotFound, NoValue)

GetAnonymousField(fieldType) ==
    IF instance = <<>>
    THEN ReturnOnly("GetAnonymousField", ErrInstanceNotBuilt, NoValue)
    ELSE LET i == AnonymousIndex(instance[1].typ, fieldType)
         IN  IF i # 0
             THEN ReturnOnly("GetAnonymousField", ErrNil, instance[1].fld[i])
             ELSE ReturnOnly("GetAnonymousField", ErrAnonymousFieldNotFound, NoValue)

\* Faulty variant: GetAnonymousFieldValue without the IsNil check; for a nil
\* pointer valueReflect.Elem() is the invalid Value and its Type() panics.
GetAnonymousFieldValue_NoNilCheck(fieldType, value) ==
    IF instance = <<>>
    THEN ReturnOnly("GetAnonymousFieldValue", ErrInstanceNotBuilt, Pointee(value))
    ELSE IF value.ptr = "none"
    THEN ReturnOnly("GetAnonymousFieldValue", ErrValueMustBePointer, Pointee(value))
    ELSE LET i == AnonymousIndex(instance[1].typ, fieldType)
         IN  IF i = 0
             THEN ReturnOnly("GetAnonymousFieldValue", ErrAnonymousFieldNotFound, Pointee(value))
             ELSE IF value.ptr = "nil"
             THEN ReturnOnly("GetAnonymousFieldValue", Panic, Pointee(value))
             ELSE IF instance[1].fld[i].typ # value.elem
             THEN ReturnOnly("GetAnonymousFieldValue", ErrIncompatibleTypes, Pointee(value))
             ELSE ReturnOnly("GetAnonymousFieldValue", ErrNil, instance[1].fld[i])

\* Faulty variant: GetAnonymousFieldValue that clears the caller's variable
\* as soon as the pointer is known to be usable, before the search.
GetAnonymousFieldValue_ClearsFirst(fieldType, value) ==
    IF instance = <<>>
    THEN ReturnOnly("GetAnonymousFieldValue", ErrInstanceNotBuilt, Pointee(value))
    ELSE IF value.ptr = "none"
    THEN ReturnOnly("GetAnonymousFieldValue", ErrValueMustBePointer, Pointee(value))
    ELSE IF value.ptr = "nil"
    THEN ReturnOnly("GetAnonymousFieldValue", ErrValueCannotBeNil, Pointee(value))
    ELSE LET i == AnonymousIndex(instance[1].typ, fieldType)
         IN  IF i = 0
             THEN ReturnOnly("GetAnonymousFieldValue", ErrAnonymousFieldNotFound,
                             Zero(value.elem))
             ELSE IF instance[1].fld[i].typ # value.elem
             THEN ReturnOnly("GetAnonymousFieldValue", ErrIncompatibleTypes,
                             Zero(value.elem))
             ELSE ReturnOnly("GetAnonymousFieldValue", ErrNil, instance[1].fld[i])

\* Faulty variant: GetAnonymousFieldValue with the assignment the wrong way
\* round, field.Set(v.Elem()): the caller's value lands in the instance.
GetAnonymousFieldValue_SetsField(fieldType, value) ==
    IF instance = <<>>
    THEN ReturnOnly("GetAnonymousFieldValue", ErrInstanceNotBuilt, Pointee(value))
    ELSE IF value.ptr = "none"
    THEN ReturnOnly("GetAnonymousFieldValue", ErrValueMustBePointer, Pointee(value))
    ELSE IF value.ptr = "nil"
    THEN ReturnOnly("GetAnonymousFieldValue", ErrValueCannotBeNil, Pointee(value))
    ELSE LET i == AnonymousIndex(instance[1].typ, fieldType)
         IN  IF i = 0
             THEN ReturnOnly("GetAnonymousFieldValue", ErrAnonymousFieldNotFound, Pointee(value))
             ELSE IF instance[1].fld[i].typ # value.elem
             THEN ReturnOnly("GetAnonymousFieldValue", ErrIncompatibleTypes, Pointee(value))
             ELSE /\ instance' =
                      << [instance[1] EXCEPT !.fld[i] = Pointee(value)] >>
                  /\ UNCHANGED <<fields, anonymousFields, handle>>
                  /\ Return("GetAnonymousFieldValue", ErrNil, Pointee(value))

GetAnonymousFieldValue(fieldType, value) ==
    IF instance = <<>>
    THEN ReturnOnly("GetAnonymousFieldValue", ErrInstanceNotBuilt, Pointee(value))
    ELSE IF value.ptr = "none"
    THEN ReturnOnly("GetAnonymousFieldValue", ErrValueMustBePointer, Pointee(value))
    ELSE IF value.ptr = "nil"
    THEN ReturnOnly("GetAnonymousFieldValue", ErrValueCannotBeNil, Pointee(value))
    ELSE LET i == AnonymousIndex(instance[1].typ, fieldType)
         IN  IF i = 0
             THEN ReturnOnly("GetAnonymousFieldValue", ErrAnonymousFieldNotFound, Pointee(value))
             ELSE IF instance[1].fld[i].typ # value.elem
             THEN ReturnOnly("GetAnonymousFieldValue", ErrIncompatibleTypes, Pointee(value))
             ELSE ReturnOnly("GetAnonymousFieldValue", ErrNil, instance[1].fld[i])

\* Faulty variant: GetField without the IsValid check; Interface() of the
\* invalid Value panics.
GetField_NoValidCheck(name) ==
    IF instance = <<>>
    THEN ReturnOnly("GetField", ErrInstanceNotBuilt, NoValue)
    ELSE LET field == FieldByName(instance[1], name)
         IN  IF field = <<>>
             THEN ReturnOnly("GetField", Panic, NoValue)
             ELSE ReturnOnly("GetField", ErrNil, field[1])

GetField(name) ==
    IF instance = <<>>
    THEN ReturnOnly("GetField", ErrInstanceNotBuilt, NoValue)
    ELSE LET field == FieldByName(instance[1], name)
         IN  IF field = <<>>
             THEN ReturnOnly("GetField", ErrFieldNotFound, NoValue)
             ELSE ReturnOnly("GetField", ErrNil, field[1])

\* The caller changes field i of the value Build returned, once per handle.
\* The change reaches the stored instance only if the handle refers to it.
\* This is no call of the Builder, so ret stays.
WriteHandle(i) ==
    /\ handle # <<>>
    /\ i \in 1..Len(handle[1].val.fld)
    /\ \A k \in 1..Len(handle[1].val.fld) : handle[1].val.fld[k].zero
    /\ LET written == [handle[1].val EXCEPT
                          !.fld[i] = NonZero(handle[1].val.fld[i].typ)]
       IN  /\ handle' = <<[handle[1] EXCEPT !.val = written]>>
           /\ instance' = IF handle[1].shared THEN <<written>> ELSE instance
    /\ UNCHANGED <<fields, anonymousFields, ret, m, threads, old>>

-----------------------------------------------------------------------------
\* The specification: any call, with any arguments, at any time.

\* One caller of the current Builder alone: each call locks, runs and
\* unlocks in one step, nobody waits for the mutex, and no Builder of the
\* earlier version is in use.
Sequential == UNCHANGED <<m, threads, old>>

Next ==
    \/ \E in \in AddFieldInputs :
            AddField(in[1], in[2], in[3]) /\ Sequential
    \/ \E in \in AddAnonymousFieldInputs :
            AddAnonymousField(in[1], in[2]) /\ Sequential
    \/ \E name \in Names : RemoveField(name) /\ Sequential
    \/ Build /\ Sequential
    \/ Reset /\ Sequential
    \/ \E name \in LookupNames, value \in ValueArgs :
            GetFieldValue(name, value) /\ Sequential
    \/ \E fieldType \in AnonTypes : GetAnonymousField(fieldType) /\ Sequential
    \/ \E fieldType \in AnonTypes, value \in ValueArgs :
            GetAnonymousFieldValue(fieldType, value) /\ Sequential
    \/ \E name \in LookupNames : GetField(name) /\ Sequential

Spec == Init /\ [][Next]_vars

\* The same calls, with a caller that also writes to the value Build
\* returned.
FieldIndexes == 1..(MaxNamed + MaxAnon)

NextHandle ==
    \/ Next
    \/ \E i \in FieldIndexes : WriteHandle(i)

SpecHandle == Init /\ [][NextHandle]_vars

-----------------------------------------------------------------------------
\* Several goroutines on one Builder.  A call is three steps: the goroutine
\* enters the method and blocks in b.m.Lock() (Invoke), it gets the mutex
\* and reads the Builder (Lock), and it runs the method's body and returns
\* through the deferred b.m.Unlock() (Return from the body, Complete).

\* The calls the goroutines make: every method, on the names and types that
\* lead through Open and Built, a failing Build included.
ThreadCalls ==
    { Call("AddField", S_Name, Zero(TString), NonPointer(NilType)),
      Call("AddField", S_age, Zero(TString), NonPointer(NilType)),
      Call("AddAnonymousField", EmptyString, Zero(TPersonTest), NonPointer(NilType)),
      Call("RemoveField", S_age, NoValue, NonPointer(NilType)),
      Call("Build", EmptyString, NoValue, NonPointer(NilType)),
      Call("Reset", EmptyString, NoValue, NonPointer(NilType)),
      Call("GetFieldValue", S_Name, NoValue, PointerTo(TString)),
      Call("GetAnonymousField", EmptyString, Zero(TPersonTest), NonPointer(NilType)),
      Call("GetAnonymousFieldValue", EmptyString, Zero(TPersonTest),
           PointerTo(TString)),
      Call("GetField", S_Name, NoValue, NonPointer(NilType)) }

\* The body of the method a call names, with the call's arguments.
Perform(call) ==
    CASE call.op = "AddField" -> AddField(call.name, call.sample, <<>>)
      [] call.op = "AddAnonymousField" ->
            AddAnonymousField(TypeOf(call.sample), <<>>)
      [] call.op = "RemoveField" -> RemoveField(call.name)
      [] call.op = "Build" -> Build
      [] call.op = "Reset" -> Reset
      [] call.op = "GetFieldValue" -> GetFieldValue(call.name, call.value)
      [] call.op = "GetAnonymousField" ->
            GetAnonymousField(TypeOf(call.sample))
      [] call.op = "GetAnonymousFieldValue" ->
            GetAnonymousFieldValue(TypeOf(call.sample), call.value)
      [] call.op = "GetField" -> GetField(call.name)

\* Everything a call can end with.
Outcomes ==
    { ErrNil, Panic, ErrFieldAlreadyExists, ErrAnonymousFieldAlreadyExists,
      ErrInstanceAlreadyBuilt, ErrInstanceNotBuilt, ErrValueMustBePointer,
      ErrValueCannotBeNil, ErrFieldNotFound, ErrAnonymousFieldNotFound,
      ErrIncompatibleTypes, ErrInvalidTag }

\* What the goroutine has read of the Builder.
Snapshot == <<fields, anonymousFields, instance>>

\* Faulty variant: a method that does not call b.m.Lock().
CanLock_Always(holder) == TRUE

\* sync.Mutex.Lock returns only when nobody holds the mutex.
CanLock(holder) == holder = Unlocked

\* Faulty variant: an Unlock placed at the end of the body instead of a
\* deferred one, which the error returns skip.
Unlock_OnSuccessOnly(t, err) == IF err = ErrNil THEN Unlocked ELSE t

\* Faulty variant: an Unlock before each return instead of a deferred one,
\* which a panic in the body never reaches.
Unlock_NotOnPanic(t, err) == IF err = Panic THEN t ELSE Unlocked

\* defer b.m.Unlock() runs on every way out of the method, a panic included.
Unlock(t, err) == Unlocked

\* The goroutine calls a method and arrives at b.m.Lock().
Invoke(t, call) ==
    /\ threads[t].pc = "idle"
    /\ threads' = [threads EXCEPT ![t] = [pc |-> "waiting", call |-> call,
                                           snap |-> <<>>]]
    /\ UNCHANGED <<fields, anonymousFields, instance, handle, ret, m, old>>

\* b.m.Lock() returns, and the method starts to read the Builder.
Lock(t) ==
    /\ threads[t].pc = "waiting"
    /\ CanLock(m)
    /\ m' = t
    /\ threads' = [threads EXCEPT ![t] = [pc |-> "critical",
                                           call |-> threads[t].call,
                                           snap |-> Snapshot]]
    /\ UNCHANGED <<fields, anonymousFields, instance, handle, ret, old>>

\* The method's body runs to its return and the deferred Unlock.  If another
\* goroutine has written to the Builder since this one read it, the two
\* bodies have raced and the outcome of the call is undefined.
Complete(t) ==
    /\ threads[t].pc = "critical"
    /\ IF threads[t].snap = Snapshot
       THEN Perform(threads[t].call)
       ELSE /\ \E err \in Outcomes :
                  ret' = [op |-> threads[t].call.op, pre |-> State,
                          err |-> err, val |-> NoValue]
            /\ UNCHANGED <<fields, anonymousFields, instance, handle>>
    /\ m' = Unlock(t, ret'.err)
    /\ threads' = [threads EXCEPT ![t] = Idle]
    /\ UNCHANGED old

NextThreads ==
    \/ \E t \in Threads, call \in ThreadCalls : Invoke(t, call)
    \/ \E t \in Threads : Lock(t)
    \/ \E t \in Threads : Complete(t)

SpecThreads == Init /\ [][NextThreads]_vars

\* The same with the scheduling the run time gives: a goroutine that holds
\* the mutex goes on to the end of the method (the bodies neither block nor
\* loop without end), and a goroutine blocked in Lock gets the mutex if it
\* is free again and again (sync.Mutex hands the mutex to a waiter that has
\* been starved).
FairThreads ==
    /\ SpecThreads
    /\ \A t \in Threads : WF_vars(Complete(t)) /\ SF_vars(Lock(t))

-----------------------------------------------------------------------------
\* The Builder of the earlier version (src/unnamed/part_001), and the two
\* versions run side by side on the same calls.

OldState == IF old.instance = <<>> THEN Open ELSE Built

\* The earlier Builder after a call: its fields, its instance, and what the
\* call returned.
OldReturn(op, err, val, fs, inst) ==
    old' = [fields |-> fs, instance |-> inst,
            ret |-> [op |-> op, pre |-> OldState, err |-> err, val |-> val]]

OldAddField(name, kind) ==
    IF old.instance # <<>>
    THEN OldReturn("AddField", ErrInstanceAlreadyBuilt, NoValue,
                   old.fields, old.instance)
    ELSE IF name \in DOMAIN old.fields
    THEN OldReturn("AddField", ErrFieldAlreadyExists, NoValue,
                   old.fields, old.instance)
    ELSE /\ Cardinality(DOMAIN old.fields) < MaxNamed
         /\ OldReturn("AddField", ErrNil, NoValue,
                      [n \in DOMAIN old.fields \cup {name} |->
                          IF n = name
                          THEN [Name |-> name, Type |-> TypeOf(kind),
                                Tag |-> EmptyString, Anonymous |-> FALSE]
                          ELSE old.fields[n]],
                      old.instance)

OldRemoveField(name) ==
    IF old.instance # <<>>
    THEN OldReturn("RemoveField", ErrInstanceAlreadyBuilt, NoValue,
                   old.fields, old.instance)
    ELSE OldReturn("RemoveField", ErrNil, NoValue,
                   [n \in DOMAIN old.fields \ {name} |-> old.fields[n]],
                   old.instance)

OldBuild ==
    IF old.instance # <<>>
    THEN OldReturn("Build", ErrInstanceAlreadyBuilt, NoValue,
                   old.fields, old.instance)
    ELSE \E order \in MapOrders(old.fields) :
            LET fs == [i \in 1..Len(order) |-> old.fields[order[i]]]
                new == NewElem(StructOf(fs))
            IN  IF StructOfPanics(fs)
                THEN OldReturn("Build", Panic, NoValue, old.fields, old.instance)
                ELSE OldReturn("Build", ErrNil, Interface(new),
                               old.fields, <<new>>)

OldReset == OldReturn("Reset", ErrNil, NoValue, old.fields, <<>>)

OldGetFieldValue(name, value) ==
    IF old.instance = <<>>
    THEN OldReturn("GetFieldValue", ErrInstanceNotBuilt, Pointee(value),
                   old.fields, old.instance)
    ELSE IF value.ptr = "none"
    THEN OldReturn("GetFieldValue", ErrValueMustBePointer, Pointee(value),
                   old.fields, old.instance)
    ELSE IF value.ptr = "nil"
    THEN OldReturn("GetFieldValue", ErrValueCannotBeNil, Pointee(value),
                   old.fields, old.instance)
    ELSE LET field == FieldByName(old.instance[1], name)
         IN  IF field = <<>>
             THEN OldReturn("GetFieldValue", ErrFieldNotFound, Pointee(value),
                            old.fields, old.instance)
             ELSE IF field[1].typ # value.elem
             THEN OldReturn("GetFieldValue", ErrIncompatibleTypes,
                            Pointee(value), old.fields, old.instance)
             ELSE OldReturn("GetFieldValue", ErrNil, field[1],
                            old.fields, old.instance)

OldGetField(name) ==
    IF old.instance = <<>>
    THEN OldReturn("GetField", ErrInstanceNotBuilt, NoValue,
                   old.fields, old.instance)
    ELSE LET field == FieldByName(old.instance[1], name)
         IN  IF field = <<>>
             THEN OldReturn("GetField", ErrFieldNotFound, NoValue,
                            old.fields, old.instance)
             ELSE OldReturn("GetField", ErrNil, field[1],
                            old.fields, old.instance)

\* The AddField calls the earlier version has: a name and a sample, no tags.
OldAddFieldInputs == { <<in[1], in[2]>> : in \in AddFieldInputs }

\* Every call is made on both Builders, with the same arguments.
NextCompat ==
    \/ \E in \in OldAddFieldInputs :
            /\ AddField(in[1], in[2], <<>>)
            /\ OldAddField(in[1], in[2])
            /\ UNCHANGED <<m, threads>>
    \/ \E name \in Names :
            RemoveField(name) /\ OldRemoveField(name) /\ UNCHANGED <<m, threads>>
    \/ Build /\ OldBuild /\ UNCHANGED <<m, threads>>
    \/ Reset /\ OldReset /\ UNCHANGED <<m, threads>>
    \/ \E name \in LookupNames, value \in ValueArgs :
            /\ GetFieldValue(name, value)
            /\ OldGetFieldValue(name, value)
            /\ UNCHANGED <<m, threads>>
    \/ \E name \in LookupNames :
            GetField(name) /\ OldGetField(name) /\ UNCHANGED <<m, threads>>

SpecCompat == Init /\ [][NextCompat]_vars

-----------------------------------------------------------------------------
\* Properties.

Mutators == {"AddField", "RemoveField", "AddAnonymousField"}
Accessors == {"GetField", "GetFieldValue", "GetAnonymousField", "GetAnonymousFieldValue"}

\* C1: the builder is Open (no instance) or Built (one instance) and starts
\* Open; a step from Open to Built is a successful Build and a successful
\* Build always makes that step; a step from Built to Open is a Reset and a
\* Reset always ends Open; every other call, and a failing Build, leaves the
\* state as it was.
C1_StateMachine ==
    /\ instance = <<>>
    /\ [][ /\ Len(instance') \in {0, 1}
           /\ (State = Open /\ State' = Built) =>
                  (ret'.op = "Build" /\ ret'.err = ErrNil)
           /\ (State = Built /\ State' = Open) => ret'.op = "Reset"
           /\ (ret'.op = "Build" /\ ret'.err = ErrNil) =>
                  (State = Open /\ State' = Built)
           /\ ret'.op = "Reset" => State' = Open
           /\ (ret'.op \in Mutators \cup Accessors
                 \/ (ret'.op = "Build" /\ ret'.err # ErrNil)) =>
                  instance' = instance
         ]_vars

\* A Reset has taken a Built builder back to Open.
C1_Witness == ret.op = "Reset" /\ ret.pre = Built /\ State = Open

\* C2: a mutator called on a Built builder returns InstanceAlreadyBuilt and
\* leaves the named-field registry and the anonymous-field sequence as they
\* were; no step from Built to Built changes either of them.
C2_MutatorsRejectedWhenBuilt ==
    [][ /\ (State = Built /\ ret'.op \in Mutators) =>
               /\ ret'.err = ErrInstanceAlreadyBuilt
               /\ fields' = fields
               /\ anonymousFields' = anonymousFields
        /\ (State = Built /\ State' = Built) =>
               /\ fields' = fields
               /\ anonymousFields' = anonymousFields
      ]_vars

\* RemoveField was refused on a Built builder that has named fields.
C2_Witness ==
    /\ ret.op = "RemoveField" /\ ret.pre = Built
    /\ ret.err = ErrInstanceAlreadyBuilt
    /\ DOMAIN fields # {} /\ anonymousFields # <<>>

\* C3: Build on a Built builder returns (nil, InstanceAlreadyBuilt) and leaves
\* the instance (type and field values) and the registry as they were.
C3_SecondBuildRejected ==
    [][ (State = Built /\ ret'.op = "Build") =>
            /\ ret'.err = ErrInstanceAlreadyBuilt
            /\ ret'.val = NoValue
            /\ instance' = instance
            /\ fields' = fields
            /\ anonymousFields' = anonymousFields
      ]_vars

\* Build was refused on a Built builder whose type has fields.
C3_Witness ==
    /\ ret.op = "Build" /\ ret.pre = Built
    /\ ret.err = ErrInstanceAlreadyBuilt
    /\ Len(instance[1].typ.fields) > 1

\* C4: an accessor called on an Open builder fails with InstanceNotBuilt.
C4_AccessorsRejectedWhenOpen ==
    (ret.op \in Accessors /\ ret.pre = Open) => ret.err = ErrInstanceNotBuilt

\* GetAnonymousField was refused on an Open builder that has named and
\* anonymous fields declared.
C4_Witness ==
    /\ ret.op = "GetAnonymousField" /\ ret.pre = Open
    /\ ret.err = ErrInstanceNotBuilt
    /\ DOMAIN fields # {} /\ anonymousFields # <<>>

\* The set of the elements of a sequence.
Range(seq) == { seq[i] : i \in 1..Len(seq) }

\* The state is the one a Reset of a Built builder has just produced.
JustReset == ret.op = "Reset" /\ ret.pre = Built

\* C5: Reset on a Built builder discards the instance and empties the
\* anonymous-field sequence and leaves the named-field registry untouched; a
\* Build right after it succeeds with exactly the named fields and no
\* anonymous field; an AddAnonymousField right after it, of any type and with
\* a well-formed tag, succeeds (never AnonymousFieldAlreadyExists); an AddField
\* right after it, of a name still in the registry, fails with
\* FieldAlreadyExists.
C5_ResetKeepsNamedFields ==
    [][ /\ (State = Built /\ ret'.op = "Reset") =>
               /\ instance' = <<>>
               /\ anonymousFields' = <<>>
               /\ fields' = fields
        /\ (JustReset /\ ret'.op = "Build") =>
               /\ ret'.err = ErrNil
               /\ Len(instance') = 1
               /\ Len(instance'[1].typ.fields) = Cardinality(DOMAIN fields)
               /\ Range(instance'[1].typ.fields) = { fields[n] : n \in DOMAIN fields }
               /\ \A i \in 1..Len(instance'[1].typ.fields) :
                      ~instance'[1].typ.fields[i].Anonymous
        /\ \A in \in AddAnonymousFieldInputs :
               (JustReset /\ ret'.op = "AddAnonymousField"
                  /\ in[1] # NilType /\ ParseOK(Join(in[2], <<" ">>))
                  /\ AddAnonymousField(in[1], in[2])) =>
                   (ret'.err = ErrNil /\ Len(anonymousFields') = 1)
        /\ \A in \in AddFieldInputs :
               (JustReset /\ ret'.op = "AddField" /\ in[1] \in DOMAIN fields
                  /\ AddField(in[1], in[2], in[3])) =>
                   (ret'.err = ErrFieldAlreadyExists /\ fields' = fields)
      ]_vars

\* A builder with named and anonymous fields was built, and the Reset left
\* the named fields and no anonymous field.
C5_Witness ==
    /\ JustReset
    /\ instance = <<>> /\ anonymousFields = <<>>
    /\ Cardinality(DOMAIN fields) = 2

\* The joined tag string of a call is one structtag.Parse rejects.
Rejected(tags) == ~ParseOK(Join(tags, <<" ">>))

\* C6, as stated: once a name is in the registry, every AddField of that name
\* fails with FieldAlreadyExists and leaves the registry as it was.
C6_Original ==
    [][ \A in \in AddFieldInputs :
            (ret'.op = "AddField" /\ in[1] \in DOMAIN fields
               /\ AddField(in[1], in[2], in[3])) =>
                (ret'.err = ErrFieldAlreadyExists /\ fields' = fields)
      ]_vars

\* C6, amended: once a name is in the registry, every AddField of that name
\* fails, with FieldAlreadyExists while the builder is Open and with
\* InstanceAlreadyBuilt while it is Built, whatever the sample and the tags
\* are, and the registry keeps the first declaration.
C6_DuplicateNameRejected ==
    [][ \A in \in AddFieldInputs :
            (ret'.op = "AddField" /\ in[1] \in DOMAIN fields
               /\ AddField(in[1], in[2], in[3])) =>
                /\ State = Open => ret'.err = ErrFieldAlreadyExists
                /\ State = Built => ret'.err = ErrInstanceAlreadyBuilt
                /\ fields' = fields
      ]_vars

\* A second AddField of a declared name was refused on an Open builder.
C6_Witness ==
    /\ ret.op = "AddField" /\ ret.pre = Open
    /\ ret.err = ErrFieldAlreadyExists

\* No two entries of the anonymous-field sequence have the same type.
AnonymousTypesUnique ==
    \A i, j \in 1..Len(anonymousFields) :
        i # j => anonymousFields[i].Type # anonymousFields[j].Type

HasAnonymous(fieldType) ==
    \E i \in 1..Len(anonymousFields) : anonymousFields[i].Type = fieldType

\* C7, as stated: AddAnonymousField of a type already in the sequence fails
\* with AnonymousFieldAlreadyExists and appends nothing, and the types in the
\* sequence are pairwise different.
C7_Original ==
    /\ []AnonymousTypesUnique
    /\ [][ \A in \in AddAnonymousFieldInputs :
               (ret'.op = "AddAnonymousField" /\ HasAnonymous(in[1])
                  /\ AddAnonymousField(in[1], in[2])) =>
                   /\ ret'.err = ErrAnonymousFieldAlreadyExists
                   /\ anonymousFields' = anonymousFields
         ]_vars

\* C7, amended: AddAnonymousField of a type already in the sequence fails,
\* with AnonymousFieldAlreadyExists while the builder is Open and with
\* InstanceAlreadyBuilt while it is Built, and appends nothing; the types in
\* the sequence are pairwise different.
C7_DuplicateTypeRejected ==
    /\ []AnonymousTypesUnique
    /\ [][ \A in \in AddAnonymousFieldInputs :
               (ret'.op = "AddAnonymousField" /\ HasAnonymous(in[1])
                  /\ AddAnonymousField(in[1], in[2])) =>
                   /\ State = Open => ret'.err = ErrAnonymousFieldAlreadyExists
                   /\ State = Built => ret'.err = ErrInstanceAlreadyBuilt
                   /\ anonymousFields' = anonymousFields
         ]_vars

\* A second AddAnonymousField of a declared type was refused on an Open
\* builder.
C7_Witness ==
    /\ ret.op = "AddAnonymousField" /\ ret.pre = Open
    /\ ret.err = ErrAnonymousFieldAlreadyExists

\* C8: when the validator rejects the joined tag fragments of an AddField or
\* AddAnonymousField call (the call gets as far as the validator: the builder
\* is Open and the name or type is not declared yet), the call fails with
\* InvalidTag; and no call with such fragments, in any state, succeeds or
\* changes the named-field registry or the anonymous-field sequence.
C8_InvalidTagRejected ==
    [][ /\ \A in \in AddFieldInputs :
               (ret'.op = "AddField" /\ Rejected(in[3])
                  /\ AddField(in[1], in[2], in[3])) =>
                   /\ (State = Open /\ in[1] \notin DOMAIN fields) =>
                          ret'.err = ErrInvalidTag
                   /\ ret'.err # ErrNil
                   /\ fields' = fields
                   /\ anonymousFields' = anonymousFields
        /\ \A in \in AddAnonymousFieldInputs :
               (ret'.op = "AddAnonymousField" /\ Rejected(in[2])
                  /\ AddAnonymousField(in[1], in[2])) =>
                   /\ (State = Open /\ ~HasAnonymous(in[1])) =>
                          ret'.err = ErrInvalidTag
                   /\ ret'.err # ErrNil
                   /\ fields' = fields
                   /\ anonymousFields' = anonymousFields
      ]_vars

\* AddField was refused for its tag on a builder that has named and anonymous
\* fields declared.
C8_Witness ==
    /\ ret.op = "AddField" /\ ret.err = ErrInvalidTag
    /\ DOMAIN fields # {} /\ anonymousFields # <<>>

C10_BuiltTypeMatchesRegistry ==
    [][ /\ (ret'.op = "Build" /\ ret'.err = ErrNil) =>
               LET fs == instance'[1].typ.fields
               IN  /\ Len(fs) = Len(anonymousFields) + Cardinality(DOMAIN fields)
                   /\ Range(fs) = Range(anonymousFields)
                                     \cup { fields[n] : n \in DOMAIN fields }
                   /\ \A f \in Range(fs) :
                          Cardinality({ i \in 1..Len(fs) : fs[i] = f }) = 1
        /\ \A in \in AddFieldInputs :
               (ret'.op = "AddField" /\ ret'.err = ErrNil
                  /\ AddField(in[1], in[2], in[3])) =>
                   fields'[in[1]] = [Name |-> in[1], Type |-> TypeOf(in[2]),
                                     Tag |-> Join(in[3], <<" ">>),
                                     Anonymous |-> FALSE]
        /\ \A in \in AddAnonymousFieldInputs :
               (ret'.op = "AddAnonymousField" /\ ret'.err = ErrNil
                  /\ AddAnonymousField(in[1], in[2])) =>
                   LET f == anonymousFields'[Len(anonymousFields')]
                   IN  /\ f.Type = in[1]
                       /\ f.Tag = Join(in[2], <<" ">>)
                       /\ f.Anonymous
      ]_vars

\* A type was built from two anonymous and two named fields, one of them
\* tagged.
C10_Witness ==
    /\ ret.op = "Build" /\ ret.err = ErrNil
    /\ Len(anonymousFields) = 2 /\ Cardinality(DOMAIN fields) = 2
    /\ \E n \in DOMAIN fields : fields[n].Tag # EmptyString

\* C11: in the type a successful Build synthesizes, the anonymous fields come
\* first, in the order of the sequence b.anonymousFields, and every field
\* after them is a named one; every successful AddAnonymousField appends at
\* the end of that sequence and AddField and RemoveField leave it alone, so
\* the sequence is the order of the successful calls however they were
\* interleaved with AddField.
C11_AnonymousFieldsFirst ==
    [][ /\ (ret'.op = "Build" /\ ret'.err = ErrNil) =>
               LET fs == instance'[1].typ.fields
                   k == Len(anonymousFields)
               IN  /\ Len(fs) >= k
                   /\ SubSeq(fs, 1, k) = anonymousFields
                   /\ \A i \in 1..Len(fs) : fs[i].Anonymous <=> i <= k
        /\ (ret'.op = "AddAnonymousField" /\ ret'.err = ErrNil) =>
               /\ Len(anonymousFields') = Len(anonymousFields) + 1
               /\ SubSeq(anonymousFields', 1, Len(anonymousFields))
                      = anonymousFields
        /\ ret'.op \in {"AddField", "RemoveField", "Build"} =>
               anonymousFields' = anonymousFields
      ]_vars

\* A type was built from two named fields and two anonymous fields of
\* different types, the anonymous fields in the first two positions.
C11_Witness ==
    /\ ret.op = "Build" /\ ret.err = ErrNil
    /\ Len(anonymousFields) = 2 /\ Cardinality(DOMAIN fields) = 2
    /\ instance[1].typ.fields[1] = anonymousFields[1]
    /\ instance[1].typ.fields[2] = anonymousFields[2]
    /\ ~instance[1].typ.fields[3].Anonymous

JustBuilt == ret.op = "Build" /\ ret.err = ErrNil

\* C13: the sample of AddField contributes its type only: right after a
\* successful Build, for every declared named field, GetField(name) succeeds
\* with the zero value of the declared type, and GetFieldValue(name, &out)
\* with out of the declared type succeeds and leaves that zero value in out,
\* whether the sample was a zero value or not.
C13_SampleContributesType ==
    [][ /\ \A name \in LookupNames :
               (JustBuilt /\ ret'.op = "GetField" /\ name \in DOMAIN fields
                  /\ GetField(name)) =>
                   (ret'.err = ErrNil /\ ret'.val = Zero(fields[name].Type))
        /\ \A name \in LookupNames, value \in ValueArgs :
               (JustBuilt /\ ret'.op = "GetFieldValue" /\ name \in DOMAIN fields
                  /\ value = PointerTo(fields[name].Type)
                  /\ GetFieldValue(name, value)) =>
                   (ret'.err = ErrNil /\ ret'.val = Zero(fields[name].Type))
      ]_vars

\* A field declared with a non-zero sample ([]int{}, the only sample of that
\* type) was built and read, and the read gave the zero value (nil slice).
C13_Witness ==
    /\ ret.op \in {"GetField", "GetFieldValue"} /\ ret.err = ErrNil
    /\ instance # <<>> /\ anonymousFields = <<>>
    /\ \E n \in DOMAIN fields : fields[n].Type = TSliceInt
    /\ ret.val = Zero(TSliceInt)

\* The type a name was declared with: <<t>> for the name of a named field or
\* the derived name of an anonymous field, <<>> for any other name.
DeclaredType(name) ==
    IF name \in DOMAIN fields
    THEN <<fields[name].Type>>
    ELSE LET hits == { i \in 1..Len(anonymousFields) :
                         anonymousFields[i].Name = name }
         IN  IF hits = {}
             THEN <<>>
             ELSE <<anonymousFields[CHOOSE i \in hits : TRUE].Type>>

\* C14: on a Built builder, GetFieldValue(name, p) with a non-nil pointer p
\* and the name of a declared field succeeds exactly when the declared type
\* is the pointee type of p; then the pointee holds the value the instance
\* has for that field; with any other pointee type the call fails with
\* IncompatibleTypes.
C14_TypesMustBeIdentical ==
    [][ \A name \in LookupNames, value \in ValueArgs :
            (ret'.op = "GetFieldValue" /\ State = Built
               /\ value.ptr = "valid" /\ DeclaredType(name) # <<>>
               /\ GetFieldValue(name, value)) =>
                LET t == DeclaredType(name)[1]
                    fs == instance[1].typ.fields
                IN  /\ ret'.err = ErrNil <=> t = value.elem
                    /\ ret'.err = ErrNil =>
                           \E i \in 1..Len(fs) :
                               /\ fs[i].Name = name
                               /\ ret'.val = instance[1].fld[i]
                               /\ ret'.val.typ = t
                    /\ t # value.elem => ret'.err = ErrIncompatibleTypes
      ]_vars

\* A declared field was asked for through a pointer to another type.
C14_Witness ==
    /\ ret.op = "GetFieldValue" /\ ret.pre = Built
    /\ ret.err = ErrIncompatibleTypes

\* The error a receiving argument that is no usable pointer is refused with.
PointerError(value) ==
    IF value.ptr = "none" THEN ErrValueMustBePointer ELSE ErrValueCannotBeNil

\* C15: on a Built builder, GetFieldValue and GetAnonymousFieldValue fail
\* with ValueMustBePointer when the receiving argument is no pointer and with
\* ValueCannotBeNil when it is a nil pointer, whatever field is asked for.
C15_ReceiverMustBeUsablePointer ==
    [][ /\ \A name \in LookupNames, value \in ValueArgs :
               (ret'.op = "GetFieldValue" /\ State = Built
                  /\ value.ptr # "valid" /\ GetFieldValue(name, value)) =>
                   ret'.err = PointerError(value)
        /\ \A fieldType \in AnonTypes, value \in ValueArgs :
               (ret'.op = "GetAnonymousFieldValue" /\ State = Built
                  /\ value.ptr # "valid"
                  /\ GetAnonymousFieldValue(fieldType, value)) =>
                   ret'.err = PointerError(value)
      ]_vars

\* On a builder with an anonymous field, GetAnonymousFieldValue was refused
\* for a nil pointer.
C15_Witness ==
    /\ ret.op = "GetAnonymousFieldValue" /\ ret.pre = Built
    /\ ret.err = ErrValueCannotBeNil
    /\ anonymousFields # <<>>

\* The names of the fields of the struct types declared as anonymous fields.
PromotedNames ==
    UNION { { anonymousFields[i].Type.fields[k].Name :
                k \in 1..Len(anonymousFields[i].Type.fields) } :
            i \in 1..Len(anonymousFields) }

\* C16, as stated: on a Built builder, GetField(name) and GetFieldValue(name,
\* p) with a usable pointer p fail with FieldNotFound for every name that is
\* neither the name of a declared named field nor the derived name of a
\* declared anonymous field.
C16_Original ==
    [][ /\ \A name \in LookupNames :
               (ret'.op = "GetField" /\ State = Built
                  /\ DeclaredType(name) = <<>> /\ GetField(name)) =>
                   ret'.err = ErrFieldNotFound
        /\ \A name \in LookupNames, value \in ValueArgs :
               (ret'.op = "GetFieldValue" /\ State = Built
                  /\ DeclaredType(name) = <<>> /\ value.ptr = "valid"
                  /\ GetFieldValue(name, value)) =>
                   ret'.err = ErrFieldNotFound
      ]_vars

\* C16, amended: on a Built builder, GetField(name) and GetFieldValue(name,
\* p) with a usable pointer p fail with FieldNotFound for every name that is
\* neither the name of a declared named field, nor the derived name of a
\* declared anonymous field, nor the name of a field of a struct type
\* declared as an anonymous field.
C16_UnknownNameNotFound ==
    [][ /\ \A name \in LookupNames :
               (ret'.op = "GetField" /\ State = Built
                  /\ DeclaredType(name) = <<>> /\ name \notin PromotedNames
                  /\ GetField(name)) =>
                   ret'.err = ErrFieldNotFound
        /\ \A name \in LookupNames, value \in ValueArgs :
               (ret'.op = "GetFieldValue" /\ State = Built
                  /\ DeclaredType(name) = <<>> /\ name \notin PromotedNames
                  /\ value.ptr = "valid"
                  /\ GetFieldValue(name, value)) =>
                   ret'.err = ErrFieldNotFound
      ]_vars

\* On a builder built with a named field and an embedded struct, a name that
\* is none of theirs was not found.
C16_Witness ==
    /\ ret.op \in {"GetField", "GetFieldValue"} /\ ret.pre = Built
    /\ ret.err = ErrFieldNotFound
    /\ HasAnonymous(TPersonTest) /\ DOMAIN fields # {}

\* C17: on a Built builder, GetAnonymousField(sample) returns the value of
\* the anonymous field declared with the sample's type, a value of that same
\* type, and fails with AnonymousFieldNotFound when no anonymous field of
\* that type was declared; GetAnonymousFieldValue with a usable pointer finds
\* the field the same way, and then delivers it when the pointee has the
\* field's type and fails with IncompatibleTypes when it has not.
C17_AnonymousLookupByType ==
    [][ /\ \A fieldType \in AnonTypes :
               (ret'.op = "GetAnonymousField" /\ State = Built
                  /\ GetAnonymousField(fieldType)) =>
                   IF HasAnonymous(fieldType)
                   THEN /\ ret'.err = ErrNil
                        /\ ret'.val.typ = fieldType
                        /\ \E i \in 1..Len(anonymousFields) :
                               /\ anonymousFields[i].Type = fieldType
                               /\ ret'.val = instance[1].fld[i]
                   ELSE ret'.err = ErrAnonymousFieldNotFound
        /\ \A fieldType \in AnonTypes, value \in ValueArgs :
               (ret'.op = "GetAnonymousFieldValue" /\ State = Built
                  /\ value.ptr = "valid"
                  /\ GetAnonymousFieldValue(fieldType, value)) =>
                   IF ~HasAnonymous(fieldType)
                   THEN ret'.err = ErrAnonymousFieldNotFound
                   ELSE IF value.elem # fieldType
                   THEN ret'.err = ErrIncompatibleTypes
                   ELSE /\ ret'.err = ErrNil
                        /\ \E i \in 1..Len(anonymousFields) :
                               /\ anonymousFields[i].Type = fieldType
                               /\ ret'.val = instance[1].fld[i]
      ]_vars

\* On a builder built with two anonymous fields, the second one was returned
\* by GetAnonymousField.
C17_Witness ==
    /\ ret.op = "GetAnonymousField" /\ ret.pre = Built /\ ret.err = ErrNil
    /\ Len(anonymousFields) = 2
    /\ ret.val.typ = anonymousFields[2].Type

\* C18: on an Open builder RemoveField never returns an error; it removes
\* the entry of the name and nothing else, so a name that is absent changes
\* nothing, and the name is absent afterwards, so a second call of the same
\* RemoveField changes nothing either.
C18_RemoveFieldIdempotent ==
    [][ \A name \in Names :
            (ret'.op = "RemoveField" /\ State = Open /\ RemoveField(name)) =>
                /\ ret'.err = ErrNil
                /\ name \notin DOMAIN fields => fields' = fields
                /\ DOMAIN fields' = DOMAIN fields \ {name}
                /\ \A n \in DOMAIN fields' : fields'[n] = fields[n]
                /\ [n \in DOMAIN fields' \ {name} |-> fields'[n]] = fields'
                /\ UNCHANGED <<anonymousFields, instance>>
      ]_vars

\* RemoveField succeeded on an Open builder whose registry holds no named
\* field but an anonymous one.
C18_Witness ==
    /\ ret.op = "RemoveField" /\ ret.pre = Open /\ ret.err = ErrNil
    /\ fields = NoFields /\ anonymousFields # <<>>

\* RemoveField has just succeeded.
JustRemoved == ret.op = "RemoveField" /\ ret.err = ErrNil

\* C19: on an Open builder a successful RemoveField(n) leaves no entry for
\* n, whatever sample n was declared with, and an AddField(n, w) that follows
\* a RemoveField and finds no entry for n succeeds (given well-formed tags)
\* and records n with the type of w.
C19_RemovedNameCanBeDeclaredAgain ==
    [][ /\ \A name \in Names :
               (ret'.op = "RemoveField" /\ State = Open /\ RemoveField(name)) =>
                   (ret'.err = ErrNil /\ name \notin DOMAIN fields')
        /\ \A in \in AddFieldInputs :
               (JustRemoved /\ ret'.op = "AddField"
                  /\ in[1] \notin DOMAIN fields /\ ~Rejected(in[3])
                  /\ AddField(in[1], in[2], in[3])) =>
                   /\ ret'.err = ErrNil
                   /\ in[1] \in DOMAIN fields'
                   /\ fields'[in[1]].Type = TypeOf(in[2])
      ]_vars

\* RemoveField succeeded on an Open builder and left one named field, so
\* that a further AddField has room.
C19_Witness ==
    /\ JustRemoved /\ ret.pre = Open
    /\ Cardinality(DOMAIN fields) = 1

\* The errors a call can return.
Errors ==
    { ErrFieldAlreadyExists, ErrAnonymousFieldAlreadyExists,
      ErrInstanceAlreadyBuilt, ErrInstanceNotBuilt, ErrValueMustBePointer,
      ErrValueCannotBeNil, ErrFieldNotFound, ErrAnonymousFieldNotFound,
      ErrIncompatibleTypes, ErrInvalidTag }

\* C20: a call that returns an error leaves the registry of named fields,
\* the sequence of anonymous fields, the instance and with it the state of
\* the builder exactly as they were.
C20_FailedCallChangesNothing ==
    [][ ret'.err \in Errors =>
            /\ fields' = fields
            /\ anonymousFields' = anonymousFields
            /\ instance' = instance
            /\ State' = State
      ]_vars

\* AddAnonymousField was refused for its tag on an Open builder that holds
\* named and anonymous fields.
C20_Witness ==
    /\ ret.op = "AddAnonymousField" /\ ret.err = ErrInvalidTag
    /\ ret.pre = Open
    /\ DOMAIN fields # {} /\ anonymousFields # <<>>

\* The goroutines inside the part of a method that the mutex guards.
InCritical == { t \in Threads : threads[t].pc = "critical" }

\* Goroutine t returns from its call in this step.
Returns(t) == threads[t].pc = "critical" /\ threads'[t].pc = "idle"

\* C21: with several goroutines calling one Builder, at most one is between
\* Lock and Unlock at any time, it holds the mutex, and nobody has written to
\* the Builder since it read it; every call ends with the result and the
\* effect the method has when run alone on the Builder as it is at that
\* moment, and the Builder changes in no other step: the results and the
\* final state are those of the calls run one after the other in the order
\* of their returns.
C21_CallsAreSerialized ==
    /\ [](/\ Cardinality(InCritical) <= 1
          /\ \A t \in InCritical : m = t /\ threads[t].snap = Snapshot)
    /\ [][ /\ \A t \in Threads : Returns(t) => Perform(threads[t].call)
           /\ bvars' # bvars => \E t \in Threads : Returns(t)
         ]_vars

\* One goroutine is inside Build on a Builder that another goroutine's
\* AddField has changed, while the other waits in Lock with its next call.
C21_Witness ==
    /\ threads["g1"].pc = "critical" /\ threads["g1"].call.op = "Build"
    /\ threads["g2"].pc = "waiting" /\ threads["g2"].call.op = "Reset"
    /\ m = "g1"
    /\ ret.op = "AddField" /\ ret.err = ErrNil

\* C22: every call gives the mutex back when it returns, whatever it returns
\* (nil, an error, a panic), so the mutex is held only while a goroutine is
\* inside a method, and every goroutine that has called a method gets
\* through it and returns.
C22_EveryCallCompletes ==
    /\ [][\A t \in Threads : Returns(t) => m' = Unlocked]_vars
    /\ [](m # Unlocked => m \in InCritical)
    /\ \A t \in Threads : threads[t].pc # "idle" ~> threads[t].pc = "idle"

\* A call has returned an error and left the mutex free, and the other
\* goroutine is blocked in Lock, about to take it.
C22_Witness ==
    /\ ret.err = ErrInstanceAlreadyBuilt
    /\ m = Unlocked
    /\ threads["g1"].pc = "idle"
    /\ threads["g2"].pc = "waiting"

\* C23: when all goroutines are in Build at the same time, the one that
\* gets to an Open builder succeeds and stores the instance, and one that
\* gets to a Built builder returns InstanceAlreadyBuilt and leaves the
\* instance alone.
C23_ExactlyOneBuildSucceeds ==
    [][ \A t \in Threads :
            (Returns(t) /\ \A u \in Threads : threads[u].call.op = "Build") =>
                IF instance = <<>>
                THEN ret'.err = ErrNil /\ instance' # <<>>
                ELSE ret'.err = ErrInstanceAlreadyBuilt /\ instance' = instance
      ]_vars

\* The tag a list of at most two fragments stands for: the fragments with
\* one space between them.
SpacedTag(tags) ==
    IF Len(tags) = 0 THEN EmptyString
    ELSE IF Len(tags) = 1 THEN tags[1]
    ELSE tags[1] \o <<" ">> \o tags[2]

\* The call supplies no tag: no fragment, or fragments that join to the empty
\* string.
Untagged(tags) == Len(tags) = 0 \/ SpacedTag(tags) = EmptyString

\* C24: a successful AddField or AddAnonymousField records as the field's tag
\* the fragments with single spaces between them; a call with no fragment, or
\* with fragments that join to the empty string, that is not refused for the
\* state or a duplicate (and, for AddAnonymousField, has a sample with a
\* type) succeeds without the validator being consulted and records the
\* empty tag.
C24_TagIsJoinedFragments ==
    [][ /\ \A in \in AddFieldInputs :
               (ret'.op = "AddField" /\ AddField(in[1], in[2], in[3])) =>
                   /\ ret'.err = ErrNil => fields'[in[1]].Tag = SpacedTag(in[3])
                   /\ (Untagged(in[3]) /\ State = Open
                          /\ in[1] \notin DOMAIN fields) =>
                         /\ ret'.err = ErrNil
                         /\ ~BuildTag(in[3]).parsed
                         /\ fields'[in[1]].Tag = EmptyString
        /\ \A in \in AddAnonymousFieldInputs :
               (ret'.op = "AddAnonymousField"
                  /\ AddAnonymousField(in[1], in[2])) =>
                   LET last == anonymousFields'[Len(anonymousFields')]
                   IN  /\ ret'.err = ErrNil => last.Tag = SpacedTag(in[2])
                       /\ (Untagged(in[2]) /\ State = Open
                              /\ ~HasAnonymous(in[1]) /\ in[1] # NilType) =>
                             /\ ret'.err = ErrNil
                             /\ ~BuildTag(in[2]).parsed
                             /\ last.Type = in[1]
                             /\ last.Tag = EmptyString
      ]_vars

\* A named field holds the tag of two fragments, joined by one space, and an
\* anonymous field was then added without a tag.
C24_Witness ==
    /\ ret.op = "AddAnonymousField" /\ ret.err = ErrNil
    /\ anonymousFields[Len(anonymousFields)].Tag = EmptyString
    /\ S_Name \in DOMAIN fields
    /\ fields[S_Name].Tag = FragGood \o <<" ">> \o FragOther

\* Two types are the same, or are struct types made of the same fields in
\* some order (each Build visits the map in an order of its own).
SameFields(a, b) ==
    \/ a = b
    \/ /\ a.kind = S_struct /\ b.kind = S_struct
       /\ a.name = b.name
       /\ Len(a.fields) = Len(b.fields)
       /\ Range(a.fields) = Range(b.fields)

\* C25: after every sequence of calls of New, AddField without tags,
\* RemoveField, Build, Reset, GetField and GetFieldValue made on a Builder of
\* the current version and on one of the earlier version, the last call has
\* returned the same error and the same value on both, both hold the same
\* named fields, both are Open or both are Built, and the built types have
\* the same fields.
C25_SameAsEarlierVersion ==
    /\ old.ret.op = ret.op /\ old.ret.pre = ret.pre
    /\ old.ret.err = ret.err
    /\ old.ret.val.zero = ret.val.zero
    /\ SameFields(old.ret.val.typ, ret.val.typ)
    /\ old.fields = fields
    /\ OldState = State
    /\ State = Built => SameFields(old.instance[1].typ, instance[1].typ)
    /\ anonymousFields = <<>>

\* Both Builders have been built, with two named fields that the two Builds
\* put in different orders, and a field was read from both.
C25_Witness ==
    /\ ret.op = "GetFieldValue" /\ ret.err = ErrNil
    /\ old.ret.op = "GetFieldValue" /\ old.ret.err = ErrNil
    /\ State = Built /\ OldState = Built
    /\ Len(instance[1].typ.fields) = 2
    /\ old.instance[1].typ # instance[1].typ

\* C26: in every state the derived names of the anonymous fields differ from
\* each other and from the names of the named fields, so that the list
\* handed to reflect.StructOf holds no name twice.
C26_DerivedNamesUnique ==
    /\ \A i, j \in 1..Len(anonymousFields) :
           i # j => anonymousFields[i].Name # anonymousFields[j].Name
    /\ \A i \in 1..Len(anonymousFields) :
           anonymousFields[i].Name \notin DOMAIN fields

\* C27: on a Built builder, GetField with the derived name of a declared
\* anonymous field succeeds and returns the value of the anonymous field of
\* that type, which is what GetAnonymousField returns for the type; and what
\* GetAnonymousField returns for a declared type is the field found under
\* the type's derived name.
C27_DerivedNameFindsAnonymousField ==
    [][ /\ \A name \in LookupNames :
               (ret'.op = "GetField" /\ State = Built
                  /\ (\E i \in 1..Len(anonymousFields) :
                         anonymousFields[i].Name = name)
                  /\ GetField(name)) =>
                   \E i \in 1..Len(anonymousFields) :
                       /\ anonymousFields[i].Name = name
                       /\ ret'.err = ErrNil
                       /\ ret'.val.typ = anonymousFields[i].Type
                       /\ ret'.val = instance[1].fld[
                              AnonymousIndex(instance[1].typ,
                                             anonymousFields[i].Type)]
        /\ \A fieldType \in AnonTypes :
               (ret'.op = "GetAnonymousField" /\ State = Built
                  /\ HasAnonymous(fieldType)
                  /\ GetAnonymousField(fieldType)) =>
                   /\ ret'.err = ErrNil
                   /\ <<ret'.val>> = FieldByName(instance[1],
                                                 AnonymousFieldName(fieldType))
      ]_vars

\* GetField("PersonTest") returned the embedded PersonTest of a builder
\* built with a named field besides.
C27_Witness ==
    /\ ret.op = "GetField" /\ ret.pre = Built /\ ret.err = ErrNil
    /\ ret.val.typ = TPersonTest
    /\ DOMAIN fields # {}

\* C28: Reset on an Open builder (nothing built since New or the last Reset)
\* returns normally, empties the anonymous-field sequence and keeps the
\* named-field registry and the Open state; a Reset right after a Reset
\* changes nothing of the builder.
C28_ResetInOpenState ==
    [][ /\ (State = Open /\ ret'.op = "Reset") =>
               /\ ret'.err = ErrNil
               /\ anonymousFields' = <<>>
               /\ fields' = fields
               /\ State' = Open
        /\ (ret.op = "Reset" /\ ret'.op = "Reset") =>
               <<fields, anonymousFields, instance>>' =
                   <<fields, anonymousFields, instance>>
      ]_vars

\* Reset returned on a builder that was Open and held two named fields, and
\* left it Open with both of them and no anonymous field.
C28_Witness ==
    /\ ret.op = "Reset" /\ ret.pre = Open /\ ret.err = ErrNil
    /\ Cardinality(DOMAIN fields) = 2
    /\ anonymousFields = <<>> /\ State = Open

\* C29: no operation changes the field values of the stored instance: the
\* instance of a Built builder holds the zero value in every field, a step
\* that starts and ends Built leaves the instance as it was, and in every
\* Built state, however it was reached, GetField(name) on a declared field
\* succeeds with the zero value of the declared type and GetFieldValue(name,
\* &out) with out of the declared type succeeds and leaves that zero value
\* in out.
C29_InstanceKeepsZeroValues ==
    /\ [](instance # <<>> =>
             \A i \in 1..Len(instance[1].fld) :
                 instance[1].fld[i] = Zero(instance[1].typ.fields[i].Type))
    /\ [][ /\ (State = Built /\ State' = Built) => instance' = instance
           /\ \A name \in LookupNames :
                  (ret'.op = "GetField" /\ State = Built
                     /\ DeclaredType(name) # <<>> /\ GetField(name)) =>
                      /\ ret'.err = ErrNil
                      /\ ret'.val = Zero(DeclaredType(name)[1])
           /\ \A name \in LookupNames, value \in ValueArgs :
                  (ret'.op = "GetFieldValue" /\ State = Built
                     /\ DeclaredType(name) # <<>>
                     /\ value = PointerTo(DeclaredType(name)[1])
                     /\ GetFieldValue(name, value)) =>
                      /\ ret'.err = ErrNil
                      /\ ret'.val = Zero(DeclaredType(name)[1])
         ]_vars

\* On a builder built with a named and an anonymous field, a string field was
\* read into the caller's variable and the variable holds the zero value.
C29_Witness ==
    /\ ret.op = "GetFieldValue" /\ ret.pre = Built /\ ret.err = ErrNil
    /\ ret.val = Zero(TString)
    /\ State = Built /\ anonymousFields # <<>>

\* C30: a successful GetField, GetFieldValue, GetAnonymousField or
\* GetAnonymousFieldValue leaves the named-field registry, the anonymous-field
\* sequence, the instance and the state as they were before the call, and the
\* value Build handed out as well: the only thing GetFieldValue and
\* GetAnonymousFieldValue write is the caller's pointee, which afterwards
\* holds a value of the pointee's type taken from the instance.
C30_AccessorsChangeNothing ==
    [][ (ret'.op \in Accessors /\ ret'.err = ErrNil) =>
            /\ fields' = fields
            /\ anonymousFields' = anonymousFields
            /\ instance' = instance
            /\ handle' = handle
            /\ State' = State /\ State = Built
            /\ \A value \in ValueArgs :
                   (\/ \E name \in LookupNames : GetFieldValue(name, value)
                    \/ \E fieldType \in AnonTypes :
                           GetAnonymousFieldValue(fieldType, value)) =>
                       /\ ret'.val.typ = value.elem
                       /\ ret'.val # Pointee(value)
      ]_vars

\* An anonymous field was read into the caller's variable on a builder that
\* also has a named field, and the builder still holds both and its instance.
C30_Witness ==
    /\ ret.op = "GetAnonymousFieldValue" /\ ret.err = ErrNil
    /\ fields # NoFields /\ anonymousFields # <<>> /\ instance # <<>>

\* C31: AddField and AddAnonymousField test their failure conditions in a
\* fixed order: on a Built builder the call fails with InstanceAlreadyBuilt
\* whatever else holds; otherwise a declared name (a declared type) makes it
\* fail with FieldAlreadyExists (AnonymousFieldAlreadyExists) whatever the
\* tags are; otherwise malformed tags make it fail with InvalidTag; and a call
\* for which none of the three holds returns none of the three errors.
C31_DeclarationErrorOrder ==
    [][ /\ \A in \in AddFieldInputs :
               (ret'.op = "AddField" /\ AddField(in[1], in[2], in[3])) =>
                   ret'.err = IF State = Built
                              THEN ErrInstanceAlreadyBuilt
                              ELSE IF in[1] \in DOMAIN fields
                              THEN ErrFieldAlreadyExists
                              ELSE IF Rejected(in[3])
                              THEN ErrInvalidTag
                              ELSE ErrNil
        /\ \A in \in AddAnonymousFieldInputs :
               (ret'.op = "AddAnonymousField"
                  /\ AddAnonymousField(in[1], in[2])) =>
                   IF State = Built
                   THEN ret'.err = ErrInstanceAlreadyBuilt
                   ELSE IF HasAnonymous(in[1])
                   THEN ret'.err = ErrAnonymousFieldAlreadyExists
                   ELSE IF Rejected(in[2])
                   THEN ret'.err = ErrInvalidTag
                   ELSE ret'.err \in {ErrNil, Panic}
      ]_vars

\* AddField was refused for the name on an Open builder whose field Name was
\* declared with a tag, the declaration every tag list of the model comes
\* with, the malformed one included.
C31_Witness ==
    /\ ret.op = "AddField" /\ ret.pre = Open
    /\ ret.err = ErrFieldAlreadyExists
    /\ S_Name \in DOMAIN fields /\ fields[S_Name].Tag # EmptyString

\* The types a lookup by name can find on the declarations as they stand:
\* the declared type of a named field or of an anonymous field's derived
\* name, else the types of the fields of that name in the struct types
\* declared as anonymous fields.
LookupTypes(name) ==
    IF DeclaredType(name) # <<>>
    THEN {DeclaredType(name)[1]}
    ELSE UNION { { anonymousFields[i].Type.fields[k].Type :
                     k \in { j \in 1..Len(anonymousFields[i].Type.fields) :
                               anonymousFields[i].Type.fields[j].Name = name } } :
                 i \in 1..Len(anonymousFields) }

\* C32: GetFieldValue and GetAnonymousFieldValue test their failure
\* conditions in a fixed order, and the error returned is the one of the
\* first condition that holds: InstanceNotBuilt on an Open builder; else
\* ValueMustBePointer for an argument that is no pointer; else
\* ValueCannotBeNil for a nil pointer; else FieldNotFound
\* (AnonymousFieldNotFound) when no field of the name (no anonymous field of
\* the type) exists; else IncompatibleTypes when the pointee's type is not
\* the field's type; and nil when none of them holds.
C32_ReadErrorOrder ==
    [][ /\ (ret'.op \in {"GetFieldValue", "GetAnonymousFieldValue"}
              /\ State = Open) =>
               ret'.err = ErrInstanceNotBuilt
        /\ \A name \in LookupNames, value \in ValueArgs :
               (ret'.op = "GetFieldValue" /\ State = Built
                  /\ ret'.val.typ = Pointee(value).typ
                  /\ GetFieldValue(name, value)) =>
                   ret'.err = IF value.ptr = "none"
                              THEN ErrValueMustBePointer
                              ELSE IF value.ptr = "nil"
                              THEN ErrValueCannotBeNil
                              ELSE IF LookupTypes(name) = {}
                              THEN ErrFieldNotFound
                              ELSE IF value.elem \notin LookupTypes(name)
                              THEN ErrIncompatibleTypes
                              ELSE ErrNil
        /\ \A fieldType \in AnonTypes, value \in ValueArgs :
               (ret'.op = "GetAnonymousFieldValue" /\ State = Built
                  /\ ret'.val.typ = Pointee(value).typ
                  /\ GetAnonymousFieldValue(fieldType, value)) =>
                   ret'.err = IF value.ptr = "none"
                              THEN ErrValueMustBePointer
                              ELSE IF value.ptr = "nil"
                              THEN ErrValueCannotBeNil
                              ELSE IF ~HasAnonymous(fieldType)
                              THEN ErrAnonymousFieldNotFound
                              ELSE IF value.elem # fieldType
                              THEN ErrIncompatibleTypes
                              ELSE ErrNil
      ]_vars

\* On a builder built without any field, where every lookup misses,
\* GetFieldValue was refused for an argument that is no pointer.
C32_Witness ==
    /\ ret.op = "GetFieldValue" /\ ret.pre = Built
    /\ ret.err = ErrValueMustBePointer
    /\ fields = NoFields /\ anonymousFields = <<>>

\* C33: when GetFieldValue or GetAnonymousFieldValue returns an error, the
\* variable the receiving pointer refers to holds the value it had before the
\* call (in the model a non-zero value of the pointee's type, which no field
\* of the instance holds): no failing call with a usable pointer is a step
\* after which the variable holds anything else.
C33_FailedReadKeepsPointee ==
    [][ /\ \A value \in ValueArgs :
               (ret'.op = "GetFieldValue" /\ ret'.err \in Errors
                  /\ value.ptr = "valid" /\ ret'.val # Pointee(value)) =>
                   \A name \in LookupNames : ~GetFieldValue(name, value)
        /\ \A value \in ValueArgs :
               (ret'.op = "GetAnonymousFieldValue" /\ ret'.err \in Errors
                  /\ value.ptr = "valid" /\ ret'.val # Pointee(value)) =>
                   \A fieldType \in AnonTypes :
                       ~GetAnonymousFieldValue(fieldType, value)
      ]_vars

\* GetAnonymousFieldValue found no anonymous field of the type and the
\* caller's string variable still holds its non-zero value.
C33_Witness ==
    /\ ret.op = "GetAnonymousFieldValue"
    /\ ret.err = ErrAnonymousFieldNotFound
    /\ ret.val = NonZero(TString)

\* A named field of the type is declared.
HasNamedOfType(fieldType) ==
    \E n \in DOMAIN fields : fields[n].Type = fieldType

\* C34: GetAnonymousField and GetAnonymousFieldValue match only fields
\* declared through AddAnonymousField: on a Built builder with a named field
\* of the sample's type and no anonymous field of that type,
\* GetAnonymousField fails with AnonymousFieldNotFound and returns no value,
\* and GetAnonymousFieldValue with a usable pointer fails with
\* AnonymousFieldNotFound.
C34_NamedFieldsAreNotAnonymous ==
    [][ /\ \A fieldType \in AnonTypes :
               (ret'.op = "GetAnonymousField" /\ State = Built
                  /\ HasNamedOfType(fieldType) /\ ~HasAnonymous(fieldType)
                  /\ GetAnonymousField(fieldType)) =>
                   (ret'.err = ErrAnonymousFieldNotFound /\ ret'.val = NoValue)
        /\ \A fieldType \in AnonTypes, value \in ValueArgs :
               (ret'.op = "GetAnonymousFieldValue" /\ State = Built
                  /\ HasNamedOfType(fieldType) /\ ~HasAnonymous(fieldType)
                  /\ value.ptr = "valid"
                  /\ GetAnonymousFieldValue(fieldType, value)) =>
                   ret'.err = ErrAnonymousFieldNotFound
      ]_vars

\* GetAnonymousField found nothing on a builder built with named fields of
\* type string and []int and no anonymous field.
C34_Witness ==
    /\ ret.op = "GetAnonymousField" /\ ret.pre = Built
    /\ ret.err = ErrAnonymousFieldNotFound
    /\ HasNamedOfType(TString) /\ HasNamedOfType(TSliceInt)
    /\ anonymousFields = <<>>

\* The name is the derived name of a declared anonymous field.
IsDerivedName(name) ==
    \E i \in 1..Len(anonymousFields) : anonymousFields[i].Name = name

\* C35: named and anonymous declarations do not affect each other: every
\* AddField and every RemoveField, successful or not, leaves the
\* anonymous-field sequence as it was, every AddAnonymousField leaves the
\* named-field registry as it was, and RemoveField of the derived name of an
\* anonymous field on an Open builder succeeds with that anonymous field
\* still declared.
C35_NamedAndAnonymousIndependent ==
    [][ /\ ret'.op \in {"AddField", "RemoveField"} =>
               anonymousFields' = anonymousFields
        /\ ret'.op = "AddAnonymousField" => fields' = fields
        /\ \A name \in Names :
               (ret'.op = "RemoveField" /\ State = Open
                  /\ IsDerivedName(name) /\ RemoveField(name)) =>
                   /\ ret'.err = ErrNil
                   /\ IsDerivedName(name)'
                   /\ Len(anonymousFields') = Len(anonymousFields)
      ]_vars

\* RemoveField returned nil on an Open builder whose only declarations are
\* anonymous fields, one of them with the derived name String, a name
\* RemoveField is called with.
C35_Witness ==
    /\ ret.op = "RemoveField" /\ ret.pre = Open /\ ret.err = ErrNil
    /\ fields = NoFields /\ Len(anonymousFields) = 2
    /\ IsDerivedName(S_String)

\* The last call that returned was a Build that panicked.
BuildPanicked == ret.op = "Build" /\ ret.err = Panic

\* C36: a Build whose type synthesis panics leaves the builder Open, with the
\* named-field registry and the anonymous-field sequence as they were, and
\* gives the mutex back; the call that returns next is not turned away: a
\* RemoveField returns nil, and a goroutine waiting in Lock after the panic
\* gets through its call and returns.
C36_PanickedBuildLeavesBuilderUsable ==
    /\ [][ \A t \in Threads :
               /\ (Returns(t) /\ threads[t].call.op = "Build"
                      /\ ret'.err = Panic) =>
                       /\ State' = Open
                       /\ fields' = fields
                       /\ anonymousFields' = anonymousFields
                       /\ m' = Unlocked
               /\ (BuildPanicked /\ Returns(t)
                      /\ threads[t].call.op = "RemoveField") =>
                       /\ ret'.err = ErrNil
                       /\ threads[t].call.name \notin DOMAIN fields'
         ]_vars
    /\ \A t \in Threads :
           (BuildPanicked /\ threads[t].pc = "waiting")
               ~> threads[t].pc = "idle"

\* Build has panicked on the field age and left the builder Open with the
\* field and the mutex free, and the other goroutine waits in Lock with the
\* RemoveField that takes the field away.
C36_Witness ==
    /\ BuildPanicked /\ State = Open /\ m = Unlocked
    /\ S_age \in DOMAIN fields
    /\ threads["g1"].pc = "idle"
    /\ threads["g2"].pc = "waiting"
    /\ threads["g2"].call.op = "RemoveField"

\* What a lookup of the name in the instance gives: <<v>> for the field's
\* value, <<>> when there is no such field.
Found(name) == IF instance = <<>> THEN <<>> ELSE FieldByName(instance[1], name)

\* C37: on a Built builder GetField and GetFieldValue agree: GetField(name)
\* succeeds exactly when the instance has a field of the name, and returns
\* its value; GetFieldValue(name, p) with a usable pointer p fails with
\* FieldNotFound exactly when the instance has no field of the name, hence
\* exactly when GetField(name) fails, and when the pointee type of p is the
\* field's type it succeeds and stores through p the value GetField(name)
\* returns.
C37_GetFieldValueAgreesWithGetField ==
    [][ /\ \A name \in LookupNames :
               (ret'.op = "GetField" /\ State = Built /\ GetField(name)) =>
                   /\ ret'.err = ErrNil <=> Found(name) # <<>>
                   /\ ret'.err # ErrNil => ret'.err = ErrFieldNotFound
                   /\ ret'.err = ErrNil => ret'.val = Found(name)[1]
        /\ \A name \in LookupNames, value \in ValueArgs :
               (ret'.op = "GetFieldValue" /\ State = Built
                  /\ value.ptr = "valid" /\ ret'.val.typ = value.elem
                  /\ GetFieldValue(name, value)) =>
                   /\ ret'.err = ErrFieldNotFound <=> Found(name) = <<>>
                   /\ (Found(name) # <<>> /\ Found(name)[1].typ = value.elem) =>
                          (ret'.err = ErrNil /\ ret'.val = Found(name)[1])
      ]_vars

\* A string was read through a pointer on a builder built with anonymous
\* fields only, so the field read is an embedded one or one promoted from
\* an embedded struct.
C37_Witness ==
    /\ ret.op = "GetFieldValue" /\ ret.pre = Built /\ ret.err = ErrNil
    /\ ret.val = Zero(TString)
    /\ fields = NoFields /\ anonymousFields # <<>>

====
